---- MODULE Spec2Model ----
(***************************************************************************)
(* Model of the concurrent Google News harvester                           *)
(* (src/google_news_scraper.py, class GoogleNewsScraper).                  *)
(*                                                                         *)
(* Text is modelled as a sequence of one-character strings, so that        *)
(* split / strip / isalnum / startswith are computed, not assumed.         *)
(* A run of get_news_data is a state machine: the main thread validates    *)
(* the keyword string, submits one task per keyword to a bounded pool,     *)
(* each keyword task submits one task per page to its own bounded pool,    *)
(* every tier joins, and the main thread deduplicates and returns.         *)
(***************************************************************************)
EXTENDS Integers, Sequences, FiniteSets, TLC

\* ------------------------------------------------------------------ bounds
MaxPages == 2          \* max_pages values 0..MaxPages in the general runs
MaxWideKeywords == 4   \* keyword count of the runs that saturate the keyword pool
MaxWidePages == 6      \* max_pages of the runs that saturate a page pool
MaxClock == 1          \* seconds the wall clock may advance during a run

\* ------------------------------------------------------- program constants
MaxKeywordWorkers == 3
MaxPageWorkers == 5
KeywordPrefixLen == 30
PageSize == 10

\* ------------------------------------------------------------- text helpers
Whitespace == {" "}
Alnum == {"a", "b", "c", "d", "E", "1", "2"}

isalnum(c) == c \in Alnum

RECURSIVE SplitAcc(_, _, _)
SplitAcc(s, cur, acc) ==
  IF s = <<>> THEN Append(acc, cur)
  ELSE IF Head(s) = "," THEN SplitAcc(Tail(s), <<>>, Append(acc, cur))
  ELSE SplitAcc(Tail(s), Append(cur, Head(s)), acc)

\* str.split(',')
split(s) == SplitAcc(s, <<>>, <<>>)

RECURSIVE lstrip(_)
lstrip(s) == IF s # <<>> /\ Head(s) \in Whitespace THEN lstrip(Tail(s)) ELSE s

RECURSIVE rstrip(_)
rstrip(s) ==
  IF s # <<>> /\ s[Len(s)] \in Whitespace THEN rstrip(SubSeq(s, 1, Len(s) - 1)) ELSE s

\* str.strip()
strip(s) == rstrip(lstrip(s))

\* str.startswith(prefix)
startswith(s, prefix) ==
  Len(s) >= Len(prefix) /\ SubSeq(s, 1, Len(prefix)) = prefix

Min(a, b) == IF a <= b THEN a ELSE b

UpperCase == <<"A", "B", "C", "D", "E", "F", "G", "H", "I", "J", "K", "L", "M",
               "N", "O", "P", "Q", "R", "S", "T", "U", "V", "W", "X", "Y", "Z">>
LowerCase == <<"a", "b", "c", "d", "e", "f", "g", "h", "i", "j", "k", "l", "m",
               "n", "o", "p", "q", "r", "s", "t", "u", "v", "w", "x", "y", "z">>

\* str.lower(), one character
lower_char(c) ==
  IF \E i \in 1..26 : UpperCase[i] = c
  THEN LowerCase[CHOOSE i \in 1..26 : UpperCase[i] = c]
  ELSE c

\* str.lower()
lower(s) == [i \in 1..Len(s) |-> lower_char(s[i])]

RECURSIVE JoinComma(_)
JoinComma(ps) ==
  IF ps = <<>> THEN <<>>
  ELSE IF Len(ps) = 1 THEN ps[1]
  ELSE ps[1] \o <<",">> \o JoinComma(Tail(ps))

\* variant: blank pieces are kept
ParseKeywordsKeepBlank(raw) ==
  LET pieces == split(raw) IN [i \in 1..Len(pieces) |-> strip(pieces[i])]

\* keywords = [kw.strip() for kw in keyword.split(',') if kw.strip()]
ParseKeywords(raw) ==
  LET pieces == split(raw)
      stripped == [i \in 1..Len(pieces) |-> strip(pieces[i])]
  IN SelectSeq(stripped, LAMBDA kw : kw # <<>>)

\* ------------------------------------------------ page payloads (the network)
HttpPrefix == <<"h", "t", "t", "p">>
Http(id) == HttpPrefix \o <<":", id>>
Rel(id) == <<"/", id>>

\* Outcome of the secondary request made by _fetch_full_title.
FetchOk(t) == [kind |-> "ok", code |-> 200, hasTitle |-> TRUE, title |-> t]
FetchNoTitle == [kind |-> "ok", code |-> 200, hasTitle |-> FALSE, title |-> <<>>]
FetchNon200 == [kind |-> "ok", code |-> 204, hasTitle |-> TRUE, title |-> <<"N">>]
FetchTimeout == [kind |-> "request_error", code |-> 0, hasTitle |-> FALSE, title |-> <<>>]
FetchCrash == [kind |-> "exception", code |-> 200, hasTitle |-> FALSE, title |-> <<>>]

\* One div.SoaBEf element of a result page: its first <a href>, the text of
\* its heading, and what the article server answers to a title request.
Element(hasHref, href, title, fetch) ==
  [hasHref |-> hasHref, href |-> href, title |-> title, fetch |-> fetch]

ElFull == Element(TRUE, Http("1"), <<"c", " ">>, FetchOk(<<" ", "E", " ">>))
ElRel == Element(TRUE, Rel("2"), <<"d">>, FetchOk(<<"E">>))
ElNoHref == Element(FALSE, <<>>, <<"d">>, FetchOk(<<"E">>))
ElTimeout == Element(TRUE, Http("1"), <<"d">>, FetchTimeout)
ElUntitled == Element(TRUE, Http("2"), <<>>, FetchCrash)
ElBlank == Element(TRUE, Http("2"), <<" ", "c">>, FetchOk(<<" ">>))
ElNoTitleTag == Element(TRUE, Rel("2"), <<"c">>, FetchNoTitle)
ElEmptyHref == Element(TRUE, <<>>, <<"c">>, FetchNon200)
ElNon200 == Element(TRUE, Http("b"), <<"c">>, FetchNon200)
ElHollow == Element(TRUE, Http("a"), <<" ">>, FetchNoTitle)

\* Answer to one page request.
RespTimeout == [kind |-> "request_error", els |-> <<>>]
RespBroken == [kind |-> "exception", els |-> <<>>]
RespNoArticles == [kind |-> "ok", els |-> <<>>]
RespA == [kind |-> "ok", els |-> <<ElFull, ElRel, ElHollow, ElNon200>>]
RespB == [kind |-> "ok",
          els |-> <<ElNoHref, ElTimeout, ElUntitled, ElBlank, ElEmptyHref, ElNoTitleTag>>]

Responses == {RespTimeout, RespBroken, RespNoArticles, RespA, RespB}

\* ------------------------------------------------------------ _fetch_full_title
fetch_full_title(f) ==
  IF f.kind = "ok" /\ f.code = 200 /\ f.hasTitle THEN strip(f.title) ELSE <<>>

\* variant: every non-empty link is fetched, relative ones included
should_fetch_any(link) == link # <<>>

\* if link and link.startswith("http")
should_fetch(link) == link # <<>> /\ startswith(link, HttpPrefix)

\* final_title = full_title if full_title else truncated_title
final_title(full_title, truncated_title) ==
  IF full_title # <<>> THEN full_title ELSE truncated_title

\* the for-loop of _scrape_page over articles_elements
RECURSIVE scrape_elements(_, _, _)
scrape_elements(els, page_results, fetched) ==
  IF els = <<>> THEN [results |-> page_results, fetched |-> fetched]
  ELSE LET el == Head(els) IN
    IF ~el.hasHref THEN scrape_elements(Tail(els), page_results, fetched)
    ELSE LET link == el.href
             truncated_title == strip(el.title)
             full_title == IF should_fetch(link) THEN fetch_full_title(el.fetch) ELSE <<>>
             title == final_title(full_title, truncated_title)
             fetched2 == IF should_fetch(link) THEN Append(fetched, link) ELSE fetched
         IN IF title # <<>> /\ link # <<>>
            THEN scrape_elements(Tail(els),
                                 Append(page_results, [link |-> link, title |-> title]),
                                 fetched2)
            ELSE scrape_elements(Tail(els), page_results, fetched2)

\* safe_keyword = "".join(c if c.isalnum() else "_" for c in keyword[:30])
safe_keyword(kw) ==
  [i \in 1..Min(KeywordPrefixLen, Len(kw)) |-> IF isalnum(kw[i]) THEN kw[i] ELSE "_"]

\* f"debug_{safe_keyword}_page{page_num}_{timestamp}.html"
debug_filename(prefix, kw, page_num, timestamp) ==
  <<prefix>> \o safe_keyword(kw)
    \o <<"_", "p", "a", "g", "e">> \o <<ToString(page_num)>>
    \o <<"_">> \o <<ToString(timestamp)>> \o <<".html">>

\* open(debug_filename, "w").write(...): a later write replaces the file
write_file(store, name, content) ==
  {f \in store : f.name # name} \cup {[name |-> name, content |-> content]}

\* ------------------------------------------------------------- pool sizes
\* variant: one worker per keyword, the cap of 3 forgotten
unbounded_keyword_workers(kws) == Len(kws)

\* max_keyword_workers = min(3, len(keywords))
max_keyword_workers(kws) == Min(MaxKeywordWorkers, Len(kws))

\* ThreadPoolExecutor(max_workers=min(5, max_pages))
page_workers(mp) == Min(MaxPageWorkers, mp)

\* start_index = page * 10, page_num = page + 1
start_index(page_num) == (page_num - 1) * PageSize

\* "|".join(languages)
RECURSIVE JoinPipe(_)
JoinPipe(ps) ==
  IF ps = <<>> THEN <<>>
  ELSE IF Len(ps) = 1 THEN ps[1]
  ELSE ps[1] \o <<"|">> \o JoinPipe(Tail(ps))

Recency == <<"r", "e", "c", "e", "n", "c", "y">>

\* tbs_params of _build_search_url
tbs_params(tp, sb) ==
  (IF tp # <<>> THEN << <<"q", "d", "r", ":">> \o tp >> ELSE <<>>)
    \o (IF lower(sb) = Recency THEN << <<"s", "b", "d", ":", "1">> >> ELSE <<>>)

\* the params dictionary of _build_search_url: the query string holds
\* exactly these keys
build_search_url(kw, langs, gs, tp, sb, start) ==
  LET base == [q |-> kw, tbm |-> "nws", start |-> start, hl |-> "en"]
      with_tbs == IF tbs_params(tp, sb) # <<>>
                  THEN base @@ ("tbs" :> JoinComma(tbs_params(tp, sb)))
                  ELSE base
      with_lr == IF langs # <<>> THEN with_tbs @@ ("lr" :> JoinPipe(langs)) ELSE with_tbs
  IN IF gs # <<>> THEN with_lr @@ ("gl" :> gs[1]) ELSE with_lr

\* the option values of the extraction tab
LangEn == <<"l", "a", "n", "g", "_", "e", "n">>
LangFr == <<"l", "a", "n", "g", "_", "f", "r">>
LanguageInputs == {<<>>, <<LangEn>>, <<LangEn, LangFr>>}
GeoInputs == {<<>>, <<"IN">>, <<"US", "GB">>}
TimePeriodInputs == {<<>>, <<"d">>}
SortByInputs == {<<"R", "e", "l", "e", "v", "a", "n", "c", "e">>,
                 <<"R", "e", "c", "e", "n", "c", "y">>}

\* variant: an empty page result discards what the keyword gathered so far
extend_pages_abort(acc, page_results) ==
  IF page_results # <<>> THEN acc \o page_results ELSE <<>>

\* all_results.extend(page_results) guarded by "if page_results"
extend_pages(acc, page_results) ==
  IF page_results # <<>> THEN acc \o page_results ELSE acc

\* for result in keyword_results: result['search_keyword'] = keyword
tag_results(keyword_results, kw) ==
  [i \in 1..Len(keyword_results) |->
     [link |-> keyword_results[i].link, title |-> keyword_results[i].title,
      search_keyword |-> kw]]

\* the seen_urls loop of get_news_data
RECURSIVE dedup_loop(_, _, _)
dedup_loop(rs, seen_urls, unique) ==
  IF rs = <<>> THEN unique
  ELSE LET result == Head(rs) IN
    IF result.link # <<>> /\ result.link \notin seen_urls
    THEN dedup_loop(Tail(rs), seen_urls \cup {result.link}, Append(unique, result))
    ELSE dedup_loop(Tail(rs), seen_urls, unique)

\* variant: no seen_urls test
dedup_keep_all(rs) == SelectSeq(rs, LAMBDA result : result.link # <<>>)

\* variant: the last occurrence of a URL wins
Reverse(seq) == [i \in 1..Len(seq) |-> seq[Len(seq) + 1 - i]]
dedup_keep_last(rs) == Reverse(dedup_loop(Reverse(rs), {}, <<>>))

\* variant: records are keyed by title instead of link
RECURSIVE dedup_title_loop(_, _, _)
dedup_title_loop(rs, seen, unique) ==
  IF rs = <<>> THEN unique
  ELSE LET result == Head(rs) IN
    IF result.link # <<>> /\ result.title \notin seen
    THEN dedup_title_loop(Tail(rs), seen \cup {result.title}, Append(unique, result))
    ELSE dedup_title_loop(Tail(rs), seen, unique)
dedup_by_title(rs) == dedup_title_loop(rs, {}, <<>>)

dedup(rs) == dedup_loop(rs, {}, <<>>)

\* "if not unique_results: return None", else the export file name
NoneValue == [kind |-> "None", rows |-> <<>>]
\* variant: an empty result is reported as an error
harvest_return_raise(unique) ==
  IF unique = <<>> THEN [kind |-> "ValueError", rows |-> <<>>]
  ELSE [kind |-> "file", rows |-> unique]

harvest_return(unique) ==
  IF unique = <<>> THEN NoneValue ELSE [kind |-> "file", rows |-> unique]

\* ------------------------------------------------------------------ inputs
\* keyword strings handed to get_news_data
RawKeywordInputs ==
  { <<>>,
    <<" ", ",", " ">>,
    <<" ", "a", " ">>,
    <<"a", ",", " ", "b">>,
    <<"a", " ", "b", ",", "a", "-", "b">>,
    <<"a", ",", ",", "a">> }

WideKeyword(i) == IF i % 2 = 1 THEN <<"a">> ELSE <<"b">>
WideKeywordInput(n) == JoinComma([i \in 1..n |-> WideKeyword(i)])
WideResponses == <<RespTimeout, RespA>>

VARIABLES
  keyword,        \* get_news_data argument: the raw comma-separated string
  max_pages,      \* get_news_data argument
  responses,      \* the two page answers the search server alternates between
  languages,      \* get_news_data argument: the selected language codes
  geos,           \* get_news_data argument: the selected region codes
  time_period,    \* get_news_data argument: the time-window code, "" for none
  sort_by,        \* get_news_data argument: "Relevance" or "Recency"
  clock,          \* time.strftime("%Y%m%d_%H%M%S") of the latest dump, in seconds
  pc,             \* main thread: "start", "joining", "done", "raised"
  keywords,       \* the parsed keyword list
  kwState,        \* per keyword future: "queued", "running", "done", "failed"
  pageState,      \* per keyword, per page future: "queued", "running", "done"
  page_result,    \* per keyword, per page: future.result() of _scrape_page
  titleFetches,   \* per keyword, per page: links requested by _fetch_full_title
  kw_results,     \* per keyword: all_results of _get_multiple_pages_parallel
  all_results,    \* all_results of get_news_data
  unique_results, \* unique_results of get_news_data
  ret,            \* what get_news_data returned or raised
  requests,       \* page requests issued so far
  executors,      \* thread pools created so far
  debugStore,     \* files of html_debug_dir
  dumps,          \* every write into html_debug_dir: task and file name
  lock,           \* self._lock: the thread holding it, or Free
  thread_at,      \* per thread: the source line it stands at, and its article cursor
  entered         \* the lock sections entered so far, by their first line

\* state of the hybrid ranker (src/intelligent_search_tab.py)
VARIABLES
  search_query,   \* the query text
  articles_df,    \* the article collection handed to the ranker
  rankPc,         \* "idle", "returned", "rejected"
  keyword_scores, \* keyword_scores of calculate_combined_relevance_score
  semantic_scores,\* what semantic_search_score returned
  result_df,      \* what calculate_combined_relevance_score returned
  ui_message      \* st.error text shown by render_intelligent_search_tab

\* state of the result selection (filter_top_results)
VARIABLES
  scored_df,        \* the ranked rows handed to filter_top_results
  selection_method, \* "Number" or "Percentage"
  selection_value,  \* requested count or percentage
  top_results,      \* what filter_top_results returned
  selPc             \* "idle", "returned"

\* state of the date normalizer (standardize_date_format)
VARIABLES
  date_str,       \* the argument
  now,            \* datetime.now(): day number and minute of the day
  date_out,       \* the returned text
  date_tier,      \* the branch that returned
  datePc          \* "idle", "returned"

\* state of the aggregation tab (render_aggregation_tab)
VARIABLES
  uploaded_files, \* the uploaded files, in upload order
  file_idx,       \* number of files the loop has gone through
  df,             \* the local variable df of the loop
  all_dataframes, \* the normalized tables collected so far
  aggregated_data,\* st.session_state['aggregated_data']
  messages,       \* st.success / st.error / st.warning lines shown
  aggPc           \* "idle", "loop", "done"

harvVars == <<keyword, max_pages, responses, languages, geos, time_period, sort_by, clock, pc, keywords, kwState, pageState,
              page_result, titleFetches, kw_results, all_results, unique_results, ret,
              requests, executors, debugStore, dumps, lock,
              thread_at, entered>>

syncVars == <<lock, thread_at, entered>>

rankVars == <<search_query, articles_df, rankPc, keyword_scores, semantic_scores,
              result_df, ui_message>>
selVars == <<scored_df, selection_method, selection_value, top_results, selPc>>
dateVars == <<date_str, now, date_out, date_tier, datePc>>
aggVars == <<uploaded_files, file_idx, df, all_dataframes, aggregated_data, messages,
             aggPc>>

\* everything but the harvester
otherVars == <<rankVars, selVars, dateVars, aggVars>>

vars == <<harvVars, otherVars>>

\* the components a run does not exercise stay in their start state
RankIdle ==
  /\ search_query = <<>>
  /\ articles_df = [shared |-> FALSE, hasSnippet |-> FALSE, rows |-> <<>>]
  /\ rankPc = "idle"
  /\ keyword_scores = <<>>
  /\ semantic_scores = [failed |-> FALSE, values |-> <<>>]
  /\ result_df = [scored |-> FALSE, rows |-> <<>>]
  /\ ui_message = ""

SelIdle ==
  /\ scored_df = <<>>
  /\ selection_method = "Number"
  /\ selection_value = 1
  /\ top_results = <<>>
  /\ selPc = "idle"

DateIdle ==
  /\ date_str = <<>>
  /\ now = [day |-> 0, minute |-> 0]
  /\ date_out = <<>>
  /\ date_tier = "none"
  /\ datePc = "idle"

\* the local df before any assignment
Unbound == [bound |-> FALSE, columns |-> {}, nrows |-> 0, file |-> 0]

\* session state without the key 'aggregated_data'
NoAggregate == [set |-> FALSE, columns |-> <<>>, rows |-> <<>>]

AggIdle ==
  /\ uploaded_files = <<>>
  /\ file_idx = 0
  /\ df = Unbound
  /\ all_dataframes = <<>>
  /\ aggregated_data = NoAggregate
  /\ messages = <<>>
  /\ aggPc = "idle"

inputVars == <<keyword, max_pages, responses, languages, geos, time_period, sort_by>>

Unset == [kind |-> "unset", rows |-> <<>>]

\* the answer the page request of keyword number k, page number page_num gets
ResponseOf(k, page_num) == responses[((k + page_num) % 2) + 1]

KwIds == 1..Len(keywords)
PageIds(k) == 1..Len(pageState[k])
RunningKeywords == {k \in KwIds : kwState[k] = "running"}
RunningPages(k) == {p \in PageIds(k) : pageState[k][p] = "running"}

MaxKw == IF MaxWideKeywords > 2 THEN MaxWideKeywords ELSE 2
MaxPg == IF MaxWidePages > MaxPages THEN MaxWidePages ELSE MaxPages

\* ------------------------------------------------ threads and self._lock
\* the thread of get_news_data, the keyword pool's tasks and the page pools'
\* tasks
MainThread == <<"main", 0, 0>>
KeywordThread(k) == <<"keyword", k, 0>>
PageThread(k, p) == <<"page", k, p>>
Threads ==
  {MainThread} \cup {KeywordThread(k) : k \in 1..MaxKw}
    \cup {PageThread(k, p) : k \in 1..MaxKw, p \in 1..MaxPg}

\* threading.Lock() of line 28, not held
Free == <<"free", 0, 0>>

\* a thread stands at a source line of src/google_news_scraper.py; el is
\* the position of a page task in its loop over articles_elements
At(label, el) == [label |-> label, el |-> el]
NotSubmitted == At("none", 0)

SyncIdle ==
  /\ lock = Free
  /\ thread_at = [t \in Threads |-> NotSubmitted]
  /\ entered = {}

\* the defaults of the extraction tab: English, India, past day, and the
\* default sort_by of get_news_data
DefaultSettings ==
  /\ languages = <<LangEn>>
  /\ geos = <<"IN">>
  /\ time_period = <<"d">>
  /\ sort_by = <<"R", "e", "l", "e", "v", "a", "n", "c", "e">>

InitInputs ==
  \/ /\ keyword \in RawKeywordInputs
     /\ max_pages \in 0..MaxPages
     /\ responses \in Responses \X Responses
     /\ DefaultSettings
  \/ /\ \E n \in (MaxKeywordWorkers + 1)..MaxWideKeywords : keyword = WideKeywordInput(n)
     /\ max_pages = 1
     /\ responses = WideResponses
     /\ DefaultSettings
  \/ /\ keyword = <<"a">>
     /\ max_pages \in (MaxPageWorkers + 1)..MaxWidePages
     /\ responses = WideResponses
     /\ DefaultSettings
  \/ /\ keyword = <<"a">>
     /\ max_pages \in 0..MaxPages
     /\ responses = WideResponses
     /\ languages \in LanguageInputs
     /\ geos \in GeoInputs
     /\ time_period \in TimePeriodInputs
     /\ sort_by \in SortByInputs

HarvInit ==
  /\ InitInputs
  /\ clock = 0
  /\ pc = "start"
  /\ keywords = <<>>
  /\ kwState = <<>>
  /\ pageState = <<>>
  /\ page_result = <<>>
  /\ titleFetches = <<>>
  /\ kw_results = <<>>
  /\ all_results = <<>>
  /\ unique_results = <<>>
  /\ ret = Unset
  /\ requests = {}
  /\ executors = {}
  /\ debugStore = {}
  /\ dumps = {}
  /\ SyncIdle

\* the harvester when a run exercises another component
HarvIdle ==
  /\ keyword = <<>>
  /\ max_pages = 0
  /\ responses = WideResponses
  /\ DefaultSettings
  /\ clock = 0
  /\ pc = "idle"
  /\ keywords = <<>>
  /\ kwState = <<>>
  /\ pageState = <<>>
  /\ page_result = <<>>
  /\ titleFetches = <<>>
  /\ kw_results = <<>>
  /\ all_results = <<>>
  /\ unique_results = <<>>
  /\ ret = Unset
  /\ requests = {}
  /\ executors = {}
  /\ debugStore = {}
  /\ dumps = {}
  /\ SyncIdle

Init == HarvInit /\ RankIdle /\ SelIdle /\ DateIdle /\ AggIdle

\* ---------------------------------------------------------- get_news_data
\* "if not keywords: raise ValueError" (re-raised by the except ValueError arm)
get_news_data_reject ==
  /\ pc = "start"
  /\ ParseKeywords(keyword) = <<>>
  /\ pc' = "raised"
  /\ ret' = [kind |-> "ValueError", rows |-> <<>>]
  /\ UNCHANGED <<otherVars, inputVars, syncVars, clock, keywords, kwState, pageState, page_result,
                 titleFetches, kw_results, all_results, unique_results, requests,
                 executors, debugStore, dumps>>

\* the keyword pool is created and one _process_keyword_parallel per keyword
\* is submitted; the main thread then waits in as_completed
get_news_data_submit ==
  /\ pc = "start"
  /\ ParseKeywords(keyword) # <<>>
  /\ LET kws == ParseKeywords(keyword) IN
       /\ keywords' = kws
       /\ kwState' = [k \in 1..Len(kws) |-> "queued"]
       /\ pageState' = [k \in 1..Len(kws) |-> <<>>]
       /\ page_result' = [k \in 1..Len(kws) |-> <<>>]
       /\ titleFetches' = [k \in 1..Len(kws) |-> <<>>]
       /\ kw_results' = [k \in 1..Len(kws) |-> <<>>]
  /\ executors' = executors \cup {<<"keywords", 0>>}
  /\ pc' = "joining"
  /\ UNCHANGED <<otherVars, inputVars, syncVars, clock, all_results, unique_results, ret, requests,
                 debugStore, dumps>>

\* a worker of the keyword pool takes the oldest queued keyword task
KeywordCanStart(k) ==
  /\ pc = "joining"
  /\ k \in KwIds
  /\ kwState[k] = "queued"
  /\ \A j \in 1..(k - 1) : kwState[j] # "queued"
  /\ Cardinality(RunningKeywords) < max_keyword_workers(keywords)

\* _process_keyword_parallel up to the submission of its page tasks
process_keyword_start(k) ==
  /\ KeywordCanStart(k)
  /\ page_workers(max_pages) > 0
  /\ kwState' = [kwState EXCEPT ![k] = "running"]
  /\ pageState' = [pageState EXCEPT ![k] = [p \in 1..max_pages |-> "queued"]]
  /\ page_result' = [page_result EXCEPT ![k] = [p \in 1..max_pages |-> <<>>]]
  /\ titleFetches' = [titleFetches EXCEPT ![k] = [p \in 1..max_pages |-> <<>>]]
  /\ executors' = executors \cup {<<"pages", k>>}
  /\ UNCHANGED <<otherVars, inputVars, syncVars, clock, pc, keywords, kw_results, all_results,
                 unique_results, ret, requests, debugStore, dumps>>

\* ThreadPoolExecutor(max_workers=0) raises ValueError inside the keyword task;
\* the future carries the exception and get_news_data logs it (line 224)
process_keyword_pool_error(k) ==
  /\ KeywordCanStart(k)
  /\ page_workers(max_pages) <= 0
  /\ kwState' = [kwState EXCEPT ![k] = "failed"]
  /\ UNCHANGED <<otherVars, inputVars, syncVars, clock, pc, keywords, pageState, page_result, titleFetches,
                 kw_results, all_results, unique_results, ret, requests, executors,
                 debugStore, dumps>>

\* ------------------------------------------------------------ _scrape_page
\* a worker of keyword k's page pool takes the oldest queued page task and
\* issues requests.get(url, timeout=10)
scrape_page_start(k, p) ==
  /\ k \in KwIds
  /\ kwState[k] = "running"
  /\ p \in PageIds(k)
  /\ pageState[k][p] = "queued"
  /\ \A j \in 1..(p - 1) : pageState[k][j] # "queued"
  /\ Cardinality(RunningPages(k)) < page_workers(max_pages)
  /\ pageState' = [pageState EXCEPT ![k][p] = "running"]
  /\ requests' = requests \cup
       {[task |-> <<k, p>>, q |-> keywords[k], start |-> start_index(p),
         url |-> build_search_url(keywords[k], languages, geos, time_period, sort_by,
                                  start_index(p))]}
  /\ UNCHANGED <<otherVars, inputVars, syncVars, clock, pc, keywords, kwState, page_result, titleFetches,
                 kw_results, all_results, unique_results, ret, executors, debugStore,
                 dumps>>

PageAnswered(k, p, kind) ==
  /\ k \in KwIds
  /\ kwState[k] = "running"
  /\ p \in PageIds(k)
  /\ pageState[k][p] = "running"
  /\ ResponseOf(k, p).kind = kind

\* the page future completes with page_results and the keyword thread's
\* as_completed loop extends its all_results with it
PageDone(k, p, page_results, fetched) ==
  /\ pageState' = [pageState EXCEPT ![k][p] = "done"]
  /\ page_result' = [page_result EXCEPT ![k][p] = page_results]
  /\ titleFetches' = [titleFetches EXCEPT ![k][p] = fetched]
  /\ kw_results' = [kw_results EXCEPT ![k] = extend_pages(kw_results[k], page_results)]

\* the debug dump written under self._lock
DumpPage(k, p, prefix) ==
  \E t \in clock..MaxClock :
    LET name == debug_filename(prefix, keywords[k], p, t) IN
      /\ clock' = t
      /\ debugStore' = write_file(debugStore, name, <<k, p>>)
      /\ dumps' = dumps \cup {[task |-> <<k, p>>, name |-> name]}

\* except requests.exceptions.RequestException: timeout, connection error, HTTP error
scrape_page_request_error(k, p) ==
  /\ PageAnswered(k, p, "request_error")
  /\ PageDone(k, p, <<>>, <<>>)
  /\ UNCHANGED <<otherVars, inputVars, syncVars, clock, pc, keywords, kwState, all_results, unique_results,
                 ret, requests, executors, debugStore, dumps>>

\* "if not articles_elements": dump the page and return []
scrape_page_no_articles(k, p) ==
  /\ PageAnswered(k, p, "ok")
  /\ ResponseOf(k, p).els = <<>>
  /\ DumpPage(k, p, "debug_")
  /\ PageDone(k, p, <<>>, <<>>)
  /\ UNCHANGED <<otherVars, inputVars, syncVars, pc, keywords, kwState, all_results, unique_results, ret,
                 requests, executors>>

\* the element loop, title fetches included
scrape_page_articles(k, p) ==
  /\ PageAnswered(k, p, "ok")
  /\ ResponseOf(k, p).els # <<>>
  /\ LET r == scrape_elements(ResponseOf(k, p).els, <<>>, <<>>) IN
       PageDone(k, p, r.results, r.fetched)
  /\ UNCHANGED <<otherVars, inputVars, syncVars, clock, pc, keywords, kwState, all_results, unique_results,
                 ret, requests, executors, debugStore, dumps>>

\* except Exception (the response exists, parsing raised): dump and return []
scrape_page_exception(k, p) ==
  /\ PageAnswered(k, p, "exception")
  /\ DumpPage(k, p, "debug_EXCEPTION_")
  /\ PageDone(k, p, <<>>, <<>>)
  /\ UNCHANGED <<otherVars, inputVars, syncVars, pc, keywords, kwState, all_results, unique_results, ret,
                 requests, executors>>

\* ------------------------------------------------------------------ the joins
\* as_completed(future_to_page) is exhausted and the page pool is shut down
AllPagesJoined(k) == \A p \in PageIds(k) : pageState[k][p] = "done"

\* variant: the main thread stops waiting at the first finished keyword
AnyKeywordJoined == \E k \in KwIds : kwState[k] \in {"done", "failed"}

\* as_completed(future_to_keyword) is exhausted and the keyword pool is shut down
AllKeywordsJoined == \A k \in KwIds : kwState[k] \in {"done", "failed"}

\* _process_keyword_parallel tags and returns; get_news_data's as_completed
\* loop extends all_results with the keyword's results
process_keyword_return(k) ==
  /\ pc = "joining"
  /\ k \in KwIds
  /\ kwState[k] = "running"
  /\ AllPagesJoined(k)
  /\ kwState' = [kwState EXCEPT ![k] = "done"]
  /\ all_results' = all_results \o tag_results(kw_results[k], keywords[k])
  /\ UNCHANGED <<otherVars, inputVars, syncVars, clock, pc, keywords, pageState, page_result, titleFetches,
                 kw_results, unique_results, ret, requests, executors, debugStore,
                 dumps>>

\* deduplication and return
get_news_data_return ==
  /\ pc = "joining"
  /\ AllKeywordsJoined
  /\ unique_results' = dedup(all_results)
  /\ ret' = harvest_return(dedup(all_results))
  /\ pc' = "done"
  /\ UNCHANGED <<otherVars, inputVars, syncVars, clock, keywords, kwState, pageState, page_result,
                 titleFetches, kw_results, all_results, requests, executors,
                 debugStore, dumps>>


Next ==
  \/ get_news_data_reject
  \/ get_news_data_submit
  \/ \E k \in 1..MaxKw : process_keyword_start(k)
  \/ \E k \in 1..MaxKw : process_keyword_pool_error(k)
  \/ \E k \in 1..MaxKw : \E p \in 1..MaxPg : scrape_page_start(k, p)
  \/ \E k \in 1..MaxKw : \E p \in 1..MaxPg : scrape_page_request_error(k, p)
  \/ \E k \in 1..MaxKw : \E p \in 1..MaxPg : scrape_page_no_articles(k, p)
  \/ \E k \in 1..MaxKw : \E p \in 1..MaxPg : scrape_page_articles(k, p)
  \/ \E k \in 1..MaxKw : \E p \in 1..MaxPg : scrape_page_exception(k, p)
  \/ \E k \in 1..MaxKw : process_keyword_return(k)
  \/ get_news_data_return

Spec == Init /\ [][Next]_vars

\* ======================================================================
\* The threads of one harvest and self._lock
\* ======================================================================
\* The same run, told thread by thread: every `with self._lock:` is an
\* acquisition and a release of its own, and a thread stands at the source
\* line it has reached. What the threads compute is left to the actions
\* above.

\* the harvester state these steps leave alone
harvData == <<clock, kwState, pageState, page_result, titleFetches, kw_results,
              all_results, unique_results, ret, requests, executors, debugStore, dumps>>

\* `with self._lock:` by the line it stands on: the first line inside the
\* block, and where the thread goes on after the block
LockSections ==
  [L39 |-> [inside |-> "L40", after |-> "L103"],
   L42 |-> [inside |-> "L43", after |-> "L103"],
   L93 |-> [inside |-> "L94", after |-> "returned"],
   L135 |-> [inside |-> "L136", after |-> "returned"],
   L141 |-> [inside |-> "L142", after |-> "returned"],
   L145 |-> [inside |-> "L146", after |-> "returned"],
   L186 |-> [inside |-> "L187", after |-> "L163"],
   L194 |-> [inside |-> "L195", after |-> "done"]]

WaitsForLock(t) == thread_at[t].label \in DOMAIN LockSections
InsideLock(t) == \E l \in DOMAIN LockSections : LockSections[l].inside = thread_at[t].label
SectionOf(t) ==
  CHOOSE l \in DOMAIN LockSections : LockSections[l].inside = thread_at[t].label

\* variant: leaving the block does not release the lock
with_exit_holding(t) == t

\* Lock.__exit__
with_exit(t) == Free

Move(t, label) == [thread_at EXCEPT ![t] = At(label, thread_at[t].el)]

KeywordLabel(k) == thread_at[KeywordThread(k)].label
PageLabel(k, p) == thread_at[PageThread(k, p)].label

\* keyword tasks that occupy a worker of the keyword pool
BusyKeywords ==
  {k \in KwIds : KeywordLabel(k) \notin {"none", "queued", "done", "failed"}}

\* page tasks of keyword k that occupy a worker of its page pool
BusyPages(k) ==
  {p \in 1..max_pages : PageLabel(k, p) \notin {"none", "queued", "returned"}}

\* variant: the page tasks are run by the keyword pool's workers
keyword_pool_idle_for_page(k) ==
  Cardinality(BusyKeywords) + Cardinality(UNION {{<<j, p>> : p \in BusyPages(j)} : j \in KwIds})
    < max_keyword_workers(keywords)

\* the page pool of keyword k has an idle worker
page_pool_idle(k) == Cardinality(BusyPages(k)) < page_workers(max_pages)

\* get_news_data up to the submission of the keyword tasks
run_submit ==
  /\ pc = "start"
  /\ thread_at[MainThread].label = "none"
  /\ LET kws == ParseKeywords(keyword) IN
       /\ keywords' = kws
       /\ IF kws = <<>>
          THEN /\ pc' = "raised"
               /\ thread_at' = [thread_at EXCEPT ![MainThread] = At("L203", 0)]
          ELSE /\ pc' = "joining"
               /\ thread_at' =
                    [t \in Threads |->
                       IF t = MainThread THEN At("L218", 0)
                       ELSE IF \E k \in 1..Len(kws) : t = KeywordThread(k)
                       THEN At("queued", 0)
                       ELSE thread_at[t]]
  /\ UNCHANGED <<otherVars, inputVars, harvData, lock, entered>>

\* a worker of the keyword pool takes the next keyword task
keyword_thread_start(k) ==
  /\ k \in KwIds
  /\ KeywordLabel(k) = "queued"
  /\ \A j \in 1..(k - 1) : KeywordLabel(j) # "queued"
  /\ Cardinality(BusyKeywords) < max_keyword_workers(keywords)
  /\ thread_at' = Move(KeywordThread(k), "L186")
  /\ UNCHANGED <<otherVars, inputVars, harvData, pc, keywords, lock, entered>>

\* Lock.__enter__: the thread blocks until the lock is free
with_enter(t) ==
  /\ t \in Threads
  /\ WaitsForLock(t)
  /\ lock = Free
  /\ lock' = t
  /\ entered' = entered \cup {thread_at[t].label}
  /\ thread_at' = Move(t, LockSections[thread_at[t].label].inside)
  /\ UNCHANGED <<otherVars, inputVars, harvData, pc, keywords>>

\* the block is left and the lock released
with_leave(t) ==
  /\ t \in Threads
  /\ InsideLock(t)
  /\ lock = t
  /\ lock' = with_exit(t)
  /\ thread_at' = Move(t, LockSections[SectionOf(t)].after)
  /\ UNCHANGED <<otherVars, inputVars, harvData, pc, keywords, entered>>

\* _get_multiple_pages_parallel: the URLs are built, the page pool is
\* created and the page tasks submitted
page_pool_submit(k) ==
  /\ k \in KwIds
  /\ KeywordLabel(k) = "L163"
  /\ page_workers(max_pages) > 0
  /\ thread_at' =
       [t \in Threads |->
          IF t = KeywordThread(k) THEN At("L174", 0)
          ELSE IF \E p \in 1..max_pages : t = PageThread(k, p) THEN At("queued", 0)
          ELSE thread_at[t]]
  /\ UNCHANGED <<otherVars, inputVars, harvData, pc, keywords, lock, entered>>

\* ThreadPoolExecutor(max_workers=0) raises ValueError in the keyword task
page_pool_error(k) ==
  /\ k \in KwIds
  /\ KeywordLabel(k) = "L163"
  /\ page_workers(max_pages) <= 0
  /\ thread_at' = Move(KeywordThread(k), "failed")
  /\ UNCHANGED <<otherVars, inputVars, harvData, pc, keywords, lock, entered>>

\* a worker of the page pool takes the next page task and sends the request
page_thread_start(k, p) ==
  /\ k \in KwIds
  /\ p \in 1..max_pages
  /\ PageLabel(k, p) = "queued"
  /\ \A j \in 1..(p - 1) : PageLabel(k, j) # "queued"
  /\ page_pool_idle(k)
  /\ thread_at' = Move(PageThread(k, p), "L80")
  /\ UNCHANGED <<otherVars, inputVars, harvData, pc, keywords, lock, entered>>

\* requests.get(url, timeout=10) returns or raises
page_thread_response(k, p) ==
  /\ k \in KwIds
  /\ p \in 1..max_pages
  /\ PageLabel(k, p) = "L80"
  /\ LET resp == ResponseOf(k, p) IN
       thread_at' =
         [thread_at EXCEPT ![PageThread(k, p)] =
            IF resp.kind = "request_error" THEN At("L141", 0)
            ELSE IF resp.kind = "exception" THEN At("L145", 0)
            ELSE IF resp.els = <<>> THEN At("L93", 0)
            ELSE At("L103", 1)]
  /\ UNCHANGED <<otherVars, inputVars, harvData, pc, keywords, lock, entered>>

\* the element the page task stands at in its loop over articles_elements
ElementAt(k, p) == ResponseOf(k, p).els[thread_at[PageThread(k, p)].el]

InArticleLoop(k, p) ==
  /\ k \in KwIds
  /\ p \in 1..max_pages
  /\ PageLabel(k, p) = "L103"
  /\ thread_at[PageThread(k, p)].el <= Len(ResponseOf(k, p).els)

FetchesTitle(el) == el.hasHref /\ should_fetch(el.href)

\* one pass of the loop body that takes no lock: no title is fetched, or
\* _fetch_full_title returns from its try block
scrape_element(k, p) ==
  /\ InArticleLoop(k, p)
  /\ FetchesTitle(ElementAt(k, p)) => ElementAt(k, p).fetch.kind = "ok"
  /\ thread_at' = [thread_at EXCEPT ![PageThread(k, p)].el = @ + 1]
  /\ UNCHANGED <<otherVars, inputVars, harvData, pc, keywords, lock, entered>>

\* requests.get(url, timeout=5) of _fetch_full_title raises: the handler
\* of line 38 or of line 41 logs under the lock
fetch_full_title_raises(k, p) ==
  /\ InArticleLoop(k, p)
  /\ FetchesTitle(ElementAt(k, p))
  /\ ElementAt(k, p).fetch.kind # "ok"
  /\ thread_at' =
       [thread_at EXCEPT ![PageThread(k, p)] =
          At(IF ElementAt(k, p).fetch.kind = "request_error" THEN "L39" ELSE "L42", @.el + 1)]
  /\ UNCHANGED <<otherVars, inputVars, harvData, pc, keywords, lock, entered>>

\* the loop over articles_elements is over
scrape_elements_end(k, p) ==
  /\ k \in KwIds
  /\ p \in 1..max_pages
  /\ PageLabel(k, p) = "L103"
  /\ thread_at[PageThread(k, p)].el > Len(ResponseOf(k, p).els)
  /\ thread_at' = Move(PageThread(k, p), "L135")
  /\ UNCHANGED <<otherVars, inputVars, harvData, pc, keywords, lock, entered>>

\* as_completed of the keyword task has yielded every page future and the
\* page pool is shut down
page_pool_joined(k) ==
  /\ k \in KwIds
  /\ KeywordLabel(k) = "L174"
  /\ \A p \in 1..max_pages : PageLabel(k, p) = "returned"
  /\ thread_at' = Move(KeywordThread(k), "L194")
  /\ UNCHANGED <<otherVars, inputVars, harvData, pc, keywords, lock, entered>>

\* as_completed of get_news_data has yielded every keyword future; the run
\* goes on to its return
run_joined ==
  /\ pc = "joining"
  /\ thread_at[MainThread].label = "L218"
  /\ \A k \in KwIds : KeywordLabel(k) \in {"done", "failed"}
  /\ pc' = "done"
  /\ thread_at' = Move(MainThread, "L227")
  /\ UNCHANGED <<otherVars, inputVars, harvData, keywords, lock, entered>>

\* runs that fill the keyword pool, runs that fill a page pool, and short
\* runs over every pair of page answers
SyncInputs ==
  \/ /\ \E n \in (MaxKeywordWorkers + 1)..MaxWideKeywords : keyword = WideKeywordInput(n)
     /\ max_pages = 1
     /\ responses = <<RespTimeout, RespB>>
  \/ /\ keyword = <<"a">>
     /\ max_pages \in (MaxPageWorkers + 1)..MaxWidePages
     /\ responses = <<RespTimeout, RespNoArticles>>
  \/ /\ keyword = <<"a">>
     /\ max_pages \in 0..MaxPages
     /\ responses \in Responses \X Responses

SyncInit ==
  /\ SyncInputs
  /\ DefaultSettings
  /\ clock = 0
  /\ pc = "start"
  /\ keywords = <<>>
  /\ kwState = <<>>
  /\ pageState = <<>>
  /\ page_result = <<>>
  /\ titleFetches = <<>>
  /\ kw_results = <<>>
  /\ all_results = <<>>
  /\ unique_results = <<>>
  /\ ret = Unset
  /\ requests = {}
  /\ executors = {}
  /\ debugStore = {}
  /\ dumps = {}
  /\ SyncIdle

InitSync == SyncInit /\ RankIdle /\ SelIdle /\ DateIdle /\ AggIdle

NextSync ==
  \/ run_submit
  \/ \E k \in 1..MaxKw : keyword_thread_start(k)
  \/ \E t \in Threads : with_enter(t)
  \/ \E t \in Threads : with_leave(t)
  \/ \E k \in 1..MaxKw : page_pool_submit(k)
  \/ \E k \in 1..MaxKw : page_pool_error(k)
  \/ \E k \in 1..MaxKw : \E p \in 1..MaxPg : page_thread_start(k, p)
  \/ \E k \in 1..MaxKw : \E p \in 1..MaxPg : page_thread_response(k, p)
  \/ \E k \in 1..MaxKw : \E p \in 1..MaxPg : scrape_element(k, p)
  \/ \E k \in 1..MaxKw : \E p \in 1..MaxPg : fetch_full_title_raises(k, p)
  \/ \E k \in 1..MaxKw : \E p \in 1..MaxPg : scrape_elements_end(k, p)
  \/ \E k \in 1..MaxKw : page_pool_joined(k)
  \/ run_joined

\* the operating system schedules every runnable thread, and every HTTP
\* request returns or times out (timeout=10 and timeout=5): a step that
\* stays possible is taken
SpecSync == InitSync /\ [][NextSync]_vars /\ WF_vars(NextSync)

\* =================================================================== claims
\* ======================================================================
\* The hybrid ranker (src/intelligent_search_tab.py)
\* ======================================================================
\* Scores are exact rationals, held as integers in units of 1/ScoreUnit of
\* a point: thirds and halves of the weights and two-decimal rounding are
\* all whole numbers of units.
ScoreUnit == 60 * 100
Cent == ScoreUnit \div 100

\* the weights and the ceiling of keyword_search_score, in points
TitleWeight == 50
ContentWeight == 40
SourceWeight == 10
TitlePhraseBonus == 20
ContentPhraseBonus == 10
MaxScore == 100

\* keyword_weight and semantic_weight, in tenths
KeywordWeight == 6
SemanticWeight == 4

Digits == <<"0", "1", "2", "3", "4", "5", "6", "7", "8", "9">>

\* the characters matched by [a-zA-Z0-9]
AsciiAlnum ==
  {UpperCase[i] : i \in 1..26} \cup {LowerCase[i] : i \in 1..26}
    \cup {Digits[i] : i \in 1..10}

\* a missing cell of a table (float nan); no text is equal to it
NaN == <<"nan-cell">>


\* re.sub(r'[^a-zA-Z0-9\s]', ' ', text)
sub_special(s) ==
  [i \in 1..Len(s) |-> IF s[i] \in AsciiAlnum \cup Whitespace THEN s[i] ELSE " "]

\* re.sub(r'\s+', ' ', text)
RECURSIVE collapse_spaces(_)
collapse_spaces(s) ==
  IF s = <<>> THEN <<>>
  ELSE IF Head(s) \in Whitespace THEN <<" ">> \o collapse_spaces(lstrip(s))
  ELSE <<Head(s)>> \o collapse_spaces(Tail(s))

preprocess_text(text) ==
  IF text = NaN \/ text = <<>> THEN <<>>
  ELSE strip(collapse_spaces(sub_special(lower(text))))

RECURSIVE SplitWordsAcc(_, _, _)
SplitWordsAcc(s, cur, acc) ==
  IF s = <<>> THEN (IF cur = <<>> THEN acc ELSE acc \cup {cur})
  ELSE IF Head(s) \in Whitespace
       THEN SplitWordsAcc(Tail(s), <<>>, IF cur = <<>> THEN acc ELSE acc \cup {cur})
  ELSE SplitWordsAcc(Tail(s), Append(cur, Head(s)), acc)

\* set(text.split())
word_set(s) == SplitWordsAcc(s, <<>>, {})

\* needle in hay
contains(hay, needle) ==
  \E i \in 0..(Len(hay) - Len(needle)) : SubSeq(hay, i + 1, i + Len(needle)) = needle

\* (matches / len(query_words)) * weight
ratio_score(matches, n, weight) == (matches * weight * ScoreUnit) \div n

\* variant: the total is returned without the ceiling
keyword_search_score_unclamped(query, title, content, source) ==
  IF query = <<>> THEN 0
  ELSE
    LET query_processed == preprocess_text(query)
        title_processed == preprocess_text(title)
        content_processed == preprocess_text(content)
        source_processed == preprocess_text(source)
        query_words == word_set(query_processed)
        n == Cardinality(query_words)
    IN IF query_words = {} THEN 0
       ELSE
         ratio_score(Cardinality(query_words \cap word_set(title_processed)), n, TitleWeight)
         + ratio_score(Cardinality(query_words \cap word_set(content_processed)), n, ContentWeight)
         + ratio_score(Cardinality(query_words \cap word_set(source_processed)), n, SourceWeight)
         + (IF contains(title_processed, query_processed) THEN TitlePhraseBonus * ScoreUnit
            ELSE IF contains(content_processed, query_processed)
                 THEN ContentPhraseBonus * ScoreUnit
            ELSE 0)

\* variant: the two phrase bonuses add up
keyword_search_score_both_bonuses(query, title, content, source) ==
  IF query = <<>> THEN 0
  ELSE
    LET query_processed == preprocess_text(query)
        title_processed == preprocess_text(title)
        content_processed == preprocess_text(content)
        source_processed == preprocess_text(source)
        query_words == word_set(query_processed)
        n == Cardinality(query_words)
    IN IF query_words = {} THEN 0
       ELSE Min(
         ratio_score(Cardinality(query_words \cap word_set(title_processed)), n, TitleWeight)
         + ratio_score(Cardinality(query_words \cap word_set(content_processed)), n, ContentWeight)
         + ratio_score(Cardinality(query_words \cap word_set(source_processed)), n, SourceWeight)
         + (IF contains(title_processed, query_processed) THEN TitlePhraseBonus * ScoreUnit
            ELSE 0)
         + (IF contains(content_processed, query_processed)
            THEN ContentPhraseBonus * ScoreUnit ELSE 0),
         MaxScore * ScoreUnit)

keyword_search_score(query, title, content, source) ==
  IF query = <<>> THEN 0
  ELSE
    LET query_processed == preprocess_text(query)
        title_processed == preprocess_text(title)
        content_processed == preprocess_text(content)
        source_processed == preprocess_text(source)
        query_words == word_set(query_processed)
        title_words == word_set(title_processed)
        content_words == word_set(content_processed)
        source_words == word_set(source_processed)
    IN IF query_words = {} THEN 0
       ELSE
         LET n == Cardinality(query_words)
             title_score == ratio_score(Cardinality(query_words \cap title_words), n, TitleWeight)
             content_score ==
               ratio_score(Cardinality(query_words \cap content_words), n, ContentWeight)
             source_score ==
               ratio_score(Cardinality(query_words \cap source_words), n, SourceWeight)
             total_score == title_score + content_score + source_score
             bonus ==
               IF contains(title_processed, query_processed) THEN TitlePhraseBonus * ScoreUnit
               ELSE IF contains(content_processed, query_processed)
                    THEN ContentPhraseBonus * ScoreUnit
               ELSE 0
         IN Min(total_score + bonus, MaxScore * ScoreUnit)

\* round(x, 2) on a value that is a whole number of units
Round2(u) ==
  LET q == u \div Cent
      r == u % Cent
  IN IF 2 * r < Cent THEN q * Cent
     ELSE IF 2 * r > Cent THEN (q + 1) * Cent
     ELSE (IF q % 2 = 0 THEN q ELSE q + 1) * Cent

\* (keyword_scores[i] * keyword_weight) + (semantic_scores[i] * semantic_weight)
combined_score(kw, sem) == (KeywordWeight * kw + SemanticWeight * sem) \div 10

\* ---------------------------------------------------------- ranker inputs
MaxArticles == 2       \* rows of the article collection handed to the ranker

QueryViratKohli == <<"V", "i", "r", "a", "t", " ", "K", "o", "h", "l", "i">>
QueryKohliVirat == <<"K", "o", "h", "l", "i", ",", " ", "V", "i", "r", "a", "t">>
QueryCup == <<"C", "u", "p">>
QueryKohliWorldCup ==
  <<"K", "o", "h", "l", "i", " ", "W", "o", "r", "l", "d", " ", "C", "u", "p">>
QueryNoWords == <<"?", "!">>

Queries ==
  {<<>>, QueryNoWords, QueryViratKohli, QueryKohliVirat, QueryCup, QueryKohliWorldCup}

TextCentury ==
  <<"V", "i", "r", "a", "t", " ", "K", "o", "h", "l", "i", " ",
    "S", "c", "o", "r", "e", "s", " ", "C", "e", "n", "t", "u", "r", "y">>
TextCup == <<"c", "u", "p">>
TextWorldCups == <<"W", "o", "r", "l", "d", " ", "C", "u", "p", "s">>
TextKohliVirat == <<"K", "o", "h", "l", "i", ":", " ", "V", "i", "r", "a", "t", "!">>

ArticleCentury == [Title |-> TextCentury, snippet |-> <<>>, Source |-> <<>>]
ArticleCup == [Title |-> TextCup, snippet |-> TextCup, Source |-> TextCup]
ArticleUntitled == [Title |-> NaN, snippet |-> TextKohliVirat, Source |-> <<>>]
ArticleWorldCups ==
  [Title |-> TextWorldCups, snippet |-> TextWorldCups, Source |-> QueryCup]

SampleArticles == {ArticleCentury, ArticleCup, ArticleUntitled, ArticleWorldCups}

\* what similarities * 100 may hold for one article: no similarity, some
\* similarity, and full similarity with the excess a floating-point dot
\* product of two normalised vectors can have
SemanticSamples == {0, 37 * ScoreUnit + 15, MaxScore * ScoreUnit + 5}

\* a table without a snippet column
without_snippet(rows) ==
  [i \in 1..Len(rows) |-> [rows[i] EXCEPT !.snippet = <<>>]]

SeqsUpTo(S, n) == UNION {[1..m -> S] : m \in 0..n}

\* the scores of a batch: one value for the odd rows, one for the even rows
similarities(n, odd, even) == [i \in 1..n |-> IF i % 2 = 1 THEN odd ELSE even]

\* np.zeros(len(articles_df))
zeros(n) == [i \in 1..n |-> 0]

\* ------------------------------------- calculate_combined_relevance_score
\* row.get('snippet', '') if 'snippet' in articles_df.columns else ""
snippet_of(frame, i) == IF frame.hasSnippet THEN frame.rows[i].snippet ELSE <<>>

score_keywords(query, frame) ==
  [i \in 1..Len(frame.rows) |->
     keyword_search_score(query, frame.rows[i].Title, snippet_of(frame, i),
                          frame.rows[i].Source)]

\* result_df before the sort: the input rows, their input position, and the
\* three score columns
score_rows(frame, kw, sem) ==
  [i \in 1..Len(frame.rows) |->
     [index |-> i,
      Title |-> frame.rows[i].Title,
      snippet |-> frame.rows[i].snippet,
      Source |-> frame.rows[i].Source,
      Keyword_Score |-> kw[i],
      Semantic_Score |-> Round2(sem[i]),
      Relevance_Score |-> Round2(combined_score(kw[i], sem[i]))]]

IndexOrders(n) == {f \in [1..n -> 1..n] : \A i, j \in 1..n : i # j => f[i] # f[j]}

\* variant: only the key column is put in descending order, the other
\* columns stay where they were
sort_values_key_only(rows) ==
  {[i \in 1..Len(rows) |-> [rows[i] EXCEPT !.Relevance_Score = rows[f[i]].Relevance_Score]] :
     f \in {g \in IndexOrders(Len(rows)) :
              \A i, j \in 1..Len(rows) :
                i < j => rows[g[i]].Relevance_Score >= rows[g[j]].Relevance_Score}}

\* sort_values('Relevance_Score', ascending=False) with the default
\* kind='quicksort': the rows in descending key order; the library leaves the
\* order among equal keys open
sort_values(rows) ==
  {[i \in 1..Len(rows) |-> rows[f[i]]] :
     f \in {g \in IndexOrders(Len(rows)) :
              \A i, j \in 1..Len(rows) :
                i < j => rows[g[i]].Relevance_Score >= rows[g[j]].Relevance_Score}}

\* "if articles_df.empty: return articles_df"
rank_empty ==
  /\ rankPc = "idle"
  /\ articles_df.rows = <<>>
  /\ result_df' = [scored |-> FALSE, rows |-> articles_df.rows]
  /\ rankPc' = "returned"
  /\ UNCHANGED <<search_query, articles_df, keyword_scores, semantic_scores, ui_message>>
  /\ UNCHANGED <<harvVars, selVars, dateVars, aggVars>>

\* variant: no copy is made, the table is the one it was taken from
same_table(table) == table

\* DataFrame.copy(): a new table with the same rows, which shares nothing
\* with the table in st.session_state
copy_table(table) == [table EXCEPT !.shared = FALSE]

ScoreColumns == <<"Keyword_Score", "Semantic_Score", "Relevance_Score">>

\* the scoring, combining and sorting part, for the semantic scores sem: the
\* score columns are written to result_df = articles_df.copy(), and reach the
\* table in st.session_state only if result_df shares its data
rank_with(sem, failed) ==
  LET kw == score_keywords(search_query, articles_df)
      scored == score_rows(articles_df, kw, sem)
  IN /\ keyword_scores' = kw
     /\ semantic_scores' = [failed |-> failed, values |-> sem]
     /\ \E sorted \in sort_values(scored) :
          result_df' = [scored |-> TRUE, rows |-> sorted]
     /\ IF copy_table(articles_df).shared
        THEN aggregated_data' = [aggregated_data EXCEPT !.columns = @ \o ScoreColumns,
                                                       !.rows = scored]
        ELSE UNCHANGED aggregated_data
     /\ rankPc' = "returned"
     /\ UNCHANGED <<search_query, articles_df, ui_message>>
     /\ UNCHANGED <<harvVars, selVars, dateVars>>
     /\ UNCHANGED <<uploaded_files, file_idx, df, all_dataframes, messages, aggPc>>

\* semantic_search_score returns similarities * 100
rank_semantic_ok ==
  /\ rankPc = "idle"
  /\ articles_df.rows # <<>>
  /\ \E odd, even \in SemanticSamples :
       rank_with(similarities(Len(articles_df.rows), odd, even), FALSE)

\* variant: a failure of the semantic stage ends the ranking
rank_semantic_failed_abort ==
  /\ rankPc = "idle"
  /\ articles_df.rows # <<>>
  /\ semantic_scores' = [failed |-> TRUE, values |-> <<>>]
  /\ rankPc' = "raised"
  /\ UNCHANGED <<search_query, articles_df, keyword_scores, result_df, ui_message>>
  /\ UNCHANGED <<harvVars, selVars, dateVars, aggVars>>

\* semantic_search_score raises inside its try block and returns zeros
rank_semantic_failed ==
  /\ rankPc = "idle"
  /\ articles_df.rows # <<>>
  /\ rank_with(zeros(Len(articles_df.rows)), TRUE)

EmptySourceMessage == "The data source is empty."

\* variant: the handler lets an empty table through to the ranking
search_clicked_empty_unreported ==
  /\ rankPc = "idle"
  /\ search_query # <<>>
  /\ articles_df.rows = <<>>
  /\ result_df' = [scored |-> FALSE, rows |-> articles_df.rows]
  /\ rankPc' = "rejected"
  /\ UNCHANGED <<search_query, articles_df, keyword_scores, semantic_scores, ui_message>>
  /\ UNCHANGED <<harvVars, selVars, dateVars, aggVars>>

\* render_intelligent_search_tab, search button, "if df.empty: st.error; return"
search_clicked_empty ==
  /\ rankPc = "idle"
  /\ search_query # <<>>
  /\ articles_df.rows = <<>>
  /\ ui_message' = EmptySourceMessage
  /\ rankPc' = "rejected"
  /\ UNCHANGED <<search_query, articles_df, keyword_scores, semantic_scores, result_df>>
  /\ UNCHANGED <<harvVars, selVars, dateVars, aggVars>>

RankInit ==
  /\ search_query \in Queries
  /\ \E rows \in SeqsUpTo(SampleArticles, MaxArticles) :
       \/ articles_df = [shared |-> FALSE, hasSnippet |-> TRUE, rows |-> rows]
       \/ articles_df = [shared |-> FALSE, hasSnippet |-> FALSE, rows |-> without_snippet(rows)]
  /\ rankPc = "idle"
  /\ keyword_scores = <<>>
  /\ semantic_scores = [failed |-> FALSE, values |-> <<>>]
  /\ result_df = [scored |-> FALSE, rows |-> <<>>]
  /\ ui_message = ""

InitRank == RankInit /\ HarvIdle /\ SelIdle /\ DateIdle /\ AggIdle

NextRank ==
  \/ rank_empty
  \/ rank_semantic_ok
  \/ rank_semantic_failed
  \/ search_clicked_empty

SpecRank == InitRank /\ [][NextRank]_vars

\* ======================================================================
\* Result selection (filter_top_results, src/intelligent_search_tab.py)
\* ======================================================================
\* float(selection_value) / 100 and len(df) * percentage are binary64
\* operations.  A binary64 value is held as its significand, a sequence of
\* at most MantissaBits bits with the most significant bit first and no
\* leading zero, and the exponent of its last bit.  The arithmetic works on
\* the bits eight at a time.
MantissaBits == 53
ByteBase == 256
QuotientBytes == 8

RECURSIVE IntBits(_)
\* the binary digits of a natural number, none for 0
IntBits(k) == IF k = 0 THEN <<>> ELSE Append(IntBits(k \div 2), k % 2)

RECURSIVE BitsToInt(_)
BitsToInt(bits) ==
  IF bits = <<>> THEN 0
  ELSE 2 * BitsToInt(SubSeq(bits, 1, Len(bits) - 1)) + bits[Len(bits)]

\* the eight binary digits of a number below ByteBase
ByteBits(k) ==
  <<(k \div 128) % 2, (k \div 64) % 2, (k \div 32) % 2, (k \div 16) % 2,
    (k \div 8) % 2, (k \div 4) % 2, (k \div 2) % 2, k % 2>>

BitsToByte(b) ==
  128 * b[1] + 64 * b[2] + 32 * b[3] + 16 * b[4] + 8 * b[5] + 4 * b[6] + 2 * b[7] + b[8]

\* the bits without their leading zeros
strip_zeros(bits) ==
  IF \A i \in 1..Len(bits) : bits[i] = 0 THEN <<>>
  ELSE SubSeq(bits, CHOOSE i \in 1..Len(bits) :
                      bits[i] = 1 /\ \A j \in 1..(i - 1) : bits[j] = 0,
              Len(bits))

\* the significand plus one
Increment(bits) ==
  IF \A i \in 1..Len(bits) : bits[i] = 1
  THEN <<1>> \o [i \in 1..Len(bits) |-> 0]
  ELSE LET k == CHOOSE i \in 1..Len(bits) :
                  bits[i] = 0 /\ \A j \in (i + 1)..Len(bits) : bits[j] = 1
       IN [i \in 1..Len(bits) |-> IF i < k THEN bits[i] ELSE IF i = k THEN 1 ELSE 0]

\* round to nearest, ties to even, of the exact value bits * 2^exp
\* (plus a nonzero remainder below the last bit when sticky)
round_to_double(bits, exp, sticky) ==
  IF Len(bits) <= MantissaBits THEN [bits |-> bits, exp |-> exp]
  ELSE
    LET kept == SubSeq(bits, 1, MantissaBits)
        guard == bits[MantissaBits + 1]
        rest == sticky \/ \E i \in (MantissaBits + 2)..Len(bits) : bits[i] = 1
        e == exp + Len(bits) - MantissaBits
        up == guard = 1 /\ (rest \/ kept[MantissaBits] = 1)
        raised == Increment(kept)
    IN IF ~up THEN [bits |-> kept, exp |-> e]
       ELSE IF Len(raised) > MantissaBits
            THEN [bits |-> SubSeq(raised, 1, MantissaBits), exp |-> e + 1]
       ELSE [bits |-> raised, exp |-> e]

RECURSIVE DivBytes(_, _, _)
\* long division: the next k bytes of the quotient of rem / d, rem < d
DivBytes(rem, d, k) ==
  IF k = 0 THEN <<>>
  ELSE ByteBits((ByteBase * rem) \div d) \o DivBytes((ByteBase * rem) % d, d, k - 1)

RECURSIVE DivRem(_, _, _)
\* what is left of rem / d after k bytes of quotient
DivRem(rem, d, k) == IF k = 0 THEN rem ELSE DivRem((ByteBase * rem) % d, d, k - 1)

\* float(v) / d for natural numbers v and d with v / d >= 2^-10
float_div(v, d) ==
  round_to_double(strip_zeros(IntBits(v \div d) \o DivBytes(v % d, d, QuotientBytes)),
                  0 - 8 * QuotientBytes,
                  DivRem(v % d, d, QuotientBytes) # 0)

RECURSIVE MulBytes(_, _, _)
\* n times the number whose bits are given, whole bytes, last byte first
MulBytes(bits, n, carry) ==
  IF bits = <<>> THEN IntBits(carry)
  ELSE LET digit == BitsToByte(SubSeq(bits, Len(bits) - 7, Len(bits))) * n + carry
       IN MulBytes(SubSeq(bits, 1, Len(bits) - 8), n, digit \div ByteBase)
            \o ByteBits(digit % ByteBase)

\* n * x for a natural number n and a binary64 x
float_mul(n, x) ==
  LET pad == (8 - (Len(x.bits) % 8)) % 8
      padded == [i \in 1..pad |-> 0] \o x.bits
  IN round_to_double(strip_zeros(MulBytes(padded, n, 0)), x.exp, FALSE)

RECURSIVE Pow2(_)
Pow2(k) == IF k = 0 THEN 1 ELSE 2 * Pow2(k - 1)

\* int(x): truncation toward zero of a non-negative binary64
float_to_int(x) ==
  IF x.exp >= 0 THEN BitsToInt(x.bits) * Pow2(x.exp)
  ELSE IF Len(x.bits) + x.exp <= 0 THEN 0
  ELSE BitsToInt(SubSeq(x.bits, 1, Len(x.bits) + x.exp))

Max(a, b) == IF a >= b THEN a ELSE b

\* ------------------------------------------------------- selection inputs
MaxAvailable == 50     \* rows of the ranked table handed to filter_top_results

\* st.number_input(min_value=1, max_value=1000) and st.slider(min_value=1, max_value=100)
NumberMin == 1
NumberMax == 1000
PercentMin == 1
PercentMax == 100

\* the requested counts tried: up to a few more than the table holds
RequestedCounts == NumberMin..Min(NumberMax, MaxAvailable + 2)

\* a ranked table of n rows, each row named by its rank
ranked_rows(n) == [i \in 1..n |-> i]

\* df.head(top_n)
head(rows, top_n) == SubSeq(rows, 1, Min(Max(top_n, 0), Len(rows)))

\* variant: the larger of the request and the table size
number_top_n_max(value, n) == Max(value, n)

\* top_n = min(int(selection_value), len(df))
number_top_n(value, n) == Min(value, n)

\* percentage = float(selection_value) / 100
\* top_n = max(1, int(len(df) * percentage))
percentage_top_n(value, n) ==
  Max(1, float_to_int(float_mul(n, float_div(value, 100))))

\* "if df.empty: return df"
filter_top_results_empty ==
  /\ selPc = "idle"
  /\ scored_df = <<>>
  /\ top_results' = scored_df
  /\ selPc' = "returned"
  /\ UNCHANGED <<scored_df, selection_method, selection_value>>
  /\ UNCHANGED <<harvVars, rankVars, dateVars, aggVars>>

filter_top_results_number ==
  /\ selPc = "idle"
  /\ scored_df # <<>>
  /\ selection_method = "Number"
  /\ top_results' = head(scored_df, number_top_n(selection_value, Len(scored_df)))
  /\ selPc' = "returned"
  /\ UNCHANGED <<scored_df, selection_method, selection_value>>
  /\ UNCHANGED <<harvVars, rankVars, dateVars, aggVars>>

filter_top_results_percentage ==
  /\ selPc = "idle"
  /\ scored_df # <<>>
  /\ selection_method # "Number"
  /\ top_results' = head(scored_df, percentage_top_n(selection_value, Len(scored_df)))
  /\ selPc' = "returned"
  /\ UNCHANGED <<scored_df, selection_method, selection_value>>
  /\ UNCHANGED <<harvVars, rankVars, dateVars, aggVars>>

SelInit ==
  /\ \E n \in 0..MaxAvailable : scored_df = ranked_rows(n)
  /\ \/ selection_method = "Number" /\ selection_value \in RequestedCounts
     \/ selection_method = "Percentage" /\ selection_value \in PercentMin..PercentMax
  /\ top_results = <<>>
  /\ selPc = "idle"

InitSelect == SelInit /\ HarvIdle /\ RankIdle /\ DateIdle /\ AggIdle

NextSelect ==
  \/ filter_top_results_empty
  \/ filter_top_results_number
  \/ filter_top_results_percentage

SpecSelect == InitSelect /\ [][NextSelect]_vars

\* ---- a search over the aggregated data (render_intelligent_search_tab)
\* the queries and selections of the searches over aggregated data
SearchQueries == {<<>>, QueryViratKohli, QueryCup}
SearchSelections ==
  {[method |-> "Number", value |-> NumberMin], [method |-> "Percentage", value |-> 50]}

\* the button is offered: "if search_query and (data_to_process is not None ...)"
\* with "Use Aggregated Data"; df = data_to_process.copy()
search_clicked_aggregated ==
  /\ rankPc = "button"
  /\ search_query # <<>>
  /\ aggregated_data.set
  /\ aggregated_data.rows # <<>>
  /\ articles_df' = copy_table([shared |-> TRUE, hasSnippet |-> FALSE,
                                rows |-> aggregated_data.rows])
  /\ rankPc' = "idle"
  /\ UNCHANGED <<search_query, keyword_scores, semantic_scores, result_df, ui_message>>
  /\ UNCHANGED <<harvVars, selVars, dateVars, aggVars>>

\* scored_df = calculate_combined_relevance_score(search_query, df)
search_scored ==
  /\ rankPc = "returned"
  /\ result_df.scored
  /\ selPc = "idle"
  /\ scored_df = <<>>
  /\ scored_df' = result_df.rows
  /\ UNCHANGED <<selection_method, selection_value, top_results, selPc>>
  /\ UNCHANGED <<harvVars, rankVars, dateVars, aggVars>>

SearchInit ==
  /\ search_query \in SearchQueries
  /\ articles_df = [shared |-> FALSE, hasSnippet |-> FALSE, rows |-> <<>>]
  /\ rankPc = "button"
  /\ keyword_scores = <<>>
  /\ semantic_scores = [failed |-> FALSE, values |-> <<>>]
  /\ result_df = [scored |-> FALSE, rows |-> <<>>]
  /\ ui_message = ""
  /\ scored_df = <<>>
  /\ \E s \in SearchSelections : selection_method = s.method /\ selection_value = s.value
  /\ top_results = <<>>
  /\ selPc = "idle"
  /\ uploaded_files = <<>>
  /\ file_idx = 0
  /\ df = Unbound
  /\ all_dataframes = <<>>
  /\ \E rows \in SeqsUpTo(SampleArticles, MaxArticles) :
       /\ rows # <<>>
       /\ aggregated_data = [set |-> TRUE, columns |-> <<"Title", "Source">>,
                             rows |-> without_snippet(rows)]
  /\ messages = <<>>
  /\ aggPc = "done"

InitSearch == HarvIdle /\ DateIdle /\ SearchInit

NextSearch ==
  \/ search_clicked_aggregated
  \/ rank_semantic_ok
  \/ rank_semantic_failed
  \/ search_scored
  \/ filter_top_results_number
  \/ filter_top_results_percentage

SpecSearch == InitSearch /\ [][NextSearch]_vars

\* ======================================================================
\* The date normalizer (standardize_date_format, src/aggregation_tab.py)
\* ======================================================================
IsDigit(c) == \E i \in 1..10 : Digits[i] = c
DigitValue(c) == (CHOOSE i \in 1..10 : Digits[i] = c) - 1
AllDigits(s) == s # <<>> /\ \A i \in 1..Len(s) : IsDigit(s[i])

RECURSIVE DigitsToInt(_)
\* int(text) for a run of decimal digits
DigitsToInt(s) ==
  IF s = <<>> THEN 0
  ELSE 10 * DigitsToInt(SubSeq(s, 1, Len(s) - 1)) + DigitValue(s[Len(s)])

RECURSIVE IntToDigits(_)
\* str(n)
IntToDigits(n) ==
  IF n < 10 THEN <<Digits[n + 1]>>
  ELSE Append(IntToDigits(n \div 10), Digits[(n % 10) + 1])

\* "%0<width>d" % n
ZeroPad(n, width) ==
  LET d == IntToDigits(n)
  IN [i \in 1..(width - Len(d)) |-> "0"] \o d

\* ------------------------------------------------ the proleptic calendar
\* (datetime: day numbers count from 0001-01-01 = 1)
is_leap(y) == y % 4 = 0 /\ (y % 100 # 0 \/ y % 400 = 0)

days_in_month(y, m) ==
  IF m = 2 THEN (IF is_leap(y) THEN 29 ELSE 28)
  ELSE IF m \in {4, 6, 9, 11} THEN 30
  ELSE 31

RECURSIVE days_before_month(_, _)
days_before_month(y, m) ==
  IF m = 1 THEN 0 ELSE days_before_month(y, m - 1) + days_in_month(y, m - 1)

\* datetime._ord2ymd: the year, month and day of a day number
ord2ymd(ordinal) ==
  LET n0 == ordinal - 1
      n400 == n0 \div 146097
      r400 == n0 % 146097
      n100 == r400 \div 36524
      r100 == r400 % 36524
      n4 == r100 \div 1461
      r4 == r100 % 1461
      n1 == r4 \div 365
      r1 == r4 % 365
      year == n400 * 400 + 1 + n100 * 100 + n4 * 4 + n1
  IN IF n1 = 4 \/ n100 = 4 THEN [year |-> year - 1, month |-> 12, day |-> 31]
     ELSE LET month == CHOOSE m \in 1..12 :
                         /\ days_before_month(year, m) <= r1
                         /\ r1 < days_before_month(year, m) + days_in_month(year, m)
          IN [year |-> year, month |-> month, day |-> r1 - days_before_month(year, month) + 1]

\* strftime("%Y/%m/%d"), years of four digits
strftime(date) ==
  ZeroPad(date.year, 4) \o <<"/">> \o ZeroPad(date.month, 2) \o <<"/">>
    \o ZeroPad(date.day, 2)

NotAvailable == <<"N", "/", "A">>

\* ---------------------------------------------------- the relative tier
UnitMinute == <<"m", "i", "n", "u", "t", "e">>
UnitHour == <<"h", "o", "u", "r">>
UnitDay == <<"d", "a", "y">>
UnitWeek == <<"w", "e", "e", "k">>
UnitMonth == <<"m", "o", "n", "t", "h">>
UnitYear == <<"y", "e", "a", "r">>
Units == <<UnitMinute, UnitHour, UnitDay, UnitWeek, UnitMonth, UnitYear>>
Ago == <<"a", "g", "o">>

\* the largest whole number of minutes, hours, days and weeks a pd.Timedelta
\* holds (a signed 64-bit count of nanoseconds)
TimedeltaLimitMinutes == 153722867
TimedeltaLimitHours == 2562047
TimedeltaLimitDays == 106751
TimedeltaLimitWeeks == 15250
MonthDays == 30
YearDays == 365

\* s[k..] begins with word
word_at(s, k, word) ==
  k + Len(word) - 1 <= Len(s) /\ SubSeq(s, k, k + Len(word) - 1) = word

\* first position from k on that holds no whitespace
skip_spaces(s, k) ==
  CHOOSE p \in k..(Len(s) + 1) :
    /\ \A q \in k..(p - 1) : s[q] \in Whitespace
    /\ (p = Len(s) + 1 \/ s[p] \notin Whitespace)

NoMatch == [ok |-> FALSE, number |-> <<>>, unit |-> 0]

\* (\d+)\s*(minute|hour|day|week|month|year)s?\s*ago, anchored at position i
match_at(s, i) ==
  IF ~IsDigit(s[i]) THEN NoMatch
  ELSE
    LET j == CHOOSE e \in i..Len(s) :
               /\ \A q \in i..e : IsDigit(s[q])
               /\ (e = Len(s) \/ ~IsDigit(s[e + 1]))
        k == skip_spaces(s, j + 1)
        units == {u \in 1..Len(Units) : word_at(s, k, Units[u])}
    IN IF units = {} THEN NoMatch
       ELSE
         LET u == CHOOSE x \in units : TRUE
             e == k + Len(Units[u])
             afterS == IF e <= Len(s) /\ s[e] = "s" THEN e + 1 ELSE e
         IN IF word_at(s, skip_spaces(s, afterS), Ago)
            THEN [ok |-> TRUE, number |-> SubSeq(s, i, j), unit |-> u]
            ELSE NoMatch

\* re.search: the leftmost match
re_search(s) ==
  LET starts == {i \in 1..Len(s) : match_at(s, i).ok}
  IN IF starts = {} THEN NoMatch
     ELSE match_at(s, CHOOSE i \in starts : \A j \in starts : i <= j)

\* pd.Timedelta(<unit>=number) is out of range
timedelta_overflows(unit, number) ==
  CASE Units[unit] = UnitMinute -> number > TimedeltaLimitMinutes
    [] Units[unit] = UnitHour -> number > TimedeltaLimitHours
    [] Units[unit] = UnitDay -> number > TimedeltaLimitDays
    [] Units[unit] = UnitWeek -> number > TimedeltaLimitWeeks
    [] Units[unit] = UnitMonth -> number > TimedeltaLimitDays \div MonthDays
    [] Units[unit] = UnitYear -> number > TimedeltaLimitDays \div YearDays

\* current_date - pd.Timedelta(...): the day number of the result
target_day(current, unit, number) ==
  LET minutes == IF Units[unit] = UnitMinute THEN number ELSE number * 60
  IN CASE Units[unit] \in {UnitMinute, UnitHour} ->
            IF minutes <= current.minute THEN current.day
            ELSE current.day - ((minutes - current.minute + 1439) \div 1440)
       [] Units[unit] = UnitDay -> current.day - number
       [] Units[unit] = UnitWeek -> current.day - number * 7
       [] Units[unit] = UnitMonth -> current.day - number * MonthDays
       [] Units[unit] = UnitYear -> current.day - number * YearDays

\* ---------------------------------------------------- the explicit tier
\* a format is a sequence of directives (%Y ...) and literal characters
Dir(c) == [kind |-> "dir", ch |-> c]
Lit(c) == [kind |-> "lit", ch |-> c]

MonthNames ==
  <<<<"j", "a", "n", "u", "a", "r", "y">>,
    <<"f", "e", "b", "r", "u", "a", "r", "y">>,
    <<"m", "a", "r", "c", "h">>,
    <<"a", "p", "r", "i", "l">>,
    <<"m", "a", "y">>,
    <<"j", "u", "n", "e">>,
    <<"j", "u", "l", "y">>,
    <<"a", "u", "g", "u", "s", "t">>,
    <<"s", "e", "p", "t", "e", "m", "b", "e", "r">>,
    <<"o", "c", "t", "o", "b", "e", "r">>,
    <<"n", "o", "v", "e", "m", "b", "e", "r">>,
    <<"d", "e", "c", "e", "m", "b", "e", "r">>>>
MonthAbbreviations == [i \in 1..12 |-> SubSeq(MonthNames[i], 1, 3)]
Meridians == <<<<"a", "m">>, <<"p", "m">>>>

IndexIn(seq, x) ==
  IF \E i \in 1..Len(seq) : seq[i] = x THEN CHOOSE i \in 1..Len(seq) : seq[i] = x ELSE 0

InRangeDigits(piece, maxLen, lo, hi) ==
  IF AllDigits(piece) /\ Len(piece) <= maxLen
       /\ lo <= DigitsToInt(piece) /\ DigitsToInt(piece) <= hi
  THEN DigitsToInt(piece) ELSE 0 - 1

\* the value a directive reads from a piece of text, -1 when the piece does
\* not match the pattern of the directive (_strptime.TimeRE)
directive_value(d, piece) ==
  CASE d = "Y" -> IF Len(piece) = 4 THEN InRangeDigits(piece, 4, 0, 9999) ELSE 0 - 1
    [] d = "y" -> IF Len(piece) = 2 /\ AllDigits(piece)
                  THEN (IF DigitsToInt(piece) <= 68 THEN 2000 ELSE 1900) + DigitsToInt(piece)
                  ELSE 0 - 1
    [] d = "m" -> InRangeDigits(piece, 2, 1, 12)
    [] d = "d" -> InRangeDigits(piece, 2, 1, 31)
    [] d = "H" -> InRangeDigits(piece, 2, 0, 23)
    [] d = "I" -> InRangeDigits(piece, 2, 1, 12)
    [] d = "M" -> InRangeDigits(piece, 2, 0, 59)
    [] d = "S" -> InRangeDigits(piece, 2, 0, 61)
    [] d = "B" -> IF IndexIn(MonthNames, lower(piece)) > 0
                  THEN IndexIn(MonthNames, lower(piece)) ELSE 0 - 1
    [] d = "b" -> IF IndexIn(MonthAbbreviations, lower(piece)) > 0
                  THEN IndexIn(MonthAbbreviations, lower(piece)) ELSE 0 - 1
    [] d = "p" -> IF IndexIn(Meridians, lower(piece)) > 0
                  THEN IndexIn(Meridians, lower(piece)) ELSE 0 - 1

directive_max_len(d) == IF d = "Y" THEN 4 ELSE IF d = "B" THEN 9 ELSE IF d = "b" THEN 3 ELSE 2

RECURSIVE parse_from(_, _)
\* the ways the whole of s matches fmt: the values read, in directive order
parse_from(s, fmt) ==
  IF fmt = <<>> THEN (IF s = <<>> THEN {<<>>} ELSE {})
  ELSE IF Head(fmt).kind = "lit"
  THEN IF Head(fmt).ch \in Whitespace
       THEN UNION {parse_from(SubSeq(s, n + 1, Len(s)), Tail(fmt)) :
                     n \in {k \in 1..Len(s) : \A q \in 1..k : s[q] \in Whitespace}}
       ELSE IF s # <<>> /\ lower_char(Head(s)) = lower_char(Head(fmt).ch)
            THEN parse_from(Tail(s), Tail(fmt))
       ELSE {}
  ELSE UNION {{<<directive_value(Head(fmt).ch, SubSeq(s, 1, n))>> \o rest :
                 rest \in parse_from(SubSeq(s, n + 1, Len(s)), Tail(fmt))} :
              n \in {k \in 1..Min(Len(s), directive_max_len(Head(fmt).ch)) :
                       directive_value(Head(fmt).ch, SubSeq(s, 1, k)) >= 0}}

NoDate == [ok |-> FALSE, year |-> 0, month |-> 0, day |-> 0]

\* datetime.strptime(date_str, fmt): the date read, or ValueError (not ok)
strptime(s, fmt) ==
  LET parses == parse_from(s, fmt)
  IN IF parses = {} THEN NoDate
     ELSE
       LET values == CHOOSE p \in parses : TRUE
           dirs == SelectSeq(fmt, LAMBDA t : t.kind = "dir")
           field(c) == values[CHOOSE i \in 1..Len(dirs) : dirs[i].ch = c]
           has(c) == \E i \in 1..Len(dirs) : dirs[i].ch = c
           year == IF has("Y") THEN field("Y") ELSE field("y")
           month == IF has("m") THEN field("m") ELSE IF has("B") THEN field("B") ELSE field("b")
           day == field("d")
       IN IF year < 1 \/ day > days_in_month(year, month) THEN NoDate
          ELSE [ok |-> TRUE, year |-> year, month |-> month, day |-> day]

\* formats_to_try, in the order of the list
formats_to_try ==
  << <<Dir("m"), Lit("/"), Dir("d"), Lit("/"), Dir("y"), Lit(" "), Dir("I"), Lit(":"),
       Dir("M"), Lit(":"), Dir("S"), Lit(" "), Dir("p")>>,
     <<Dir("Y"), Lit("-"), Dir("m"), Lit("-"), Dir("d"), Lit("T"), Dir("H"), Lit(":"),
       Dir("M"), Lit(":"), Dir("S")>>,
     <<Dir("Y"), Lit("-"), Dir("m"), Lit("-"), Dir("d"), Lit(" "), Dir("H"), Lit(":"),
       Dir("M"), Lit(":"), Dir("S")>>,
     <<Dir("m"), Lit("/"), Dir("d"), Lit("/"), Dir("Y")>>,
     <<Dir("Y"), Lit("-"), Dir("m"), Lit("-"), Dir("d")>>,
     <<Dir("d"), Lit("/"), Dir("m"), Lit("/"), Dir("Y")>>,
     <<Dir("B"), Lit(" "), Dir("d"), Lit(","), Lit(" "), Dir("Y")>>,
     <<Dir("b"), Lit(" "), Dir("d"), Lit(","), Lit(" "), Dir("Y")>>,
     <<Dir("d"), Lit("-"), Dir("m"), Lit("-"), Dir("Y")>>,
     <<Dir("Y"), Lit("/"), Dir("m"), Lit("/"), Dir("d")>> >>

\* the formats that read s
parsing_formats(s) == {f \in 1..Len(formats_to_try) : strptime(s, formats_to_try[f]).ok}

\* variant: the last format that reads s wins
first_parse_last(s) ==
  IF parsing_formats(s) = {} THEN NoDate
  ELSE strptime(s, formats_to_try[CHOOSE f \in parsing_formats(s) :
                                    \A g \in parsing_formats(s) : f >= g])

\* the loop over formats_to_try: the first format that reads s wins
first_parse(s) ==
  IF parsing_formats(s) = {} THEN NoDate
  ELSE strptime(s, formats_to_try[CHOOSE f \in parsing_formats(s) :
                                    \A g \in parsing_formats(s) : f <= g])


\* datetime._ymd2ord: the day number of a date
ymd2ord(y, m, d) ==
  LET p == y - 1
  IN p * 365 + p \div 4 - p \div 100 + p \div 400 + days_before_month(y, m) + d

\* --------------------------------------------------------- date inputs
MaxRelativeNumber == 3   \* the small counts N of "<N> <unit> ago" tried

\* the counts tried: the small ones and, for every unit, the last count a
\* Timedelta holds and the first it does not
RelativeNumbers ==
  (0..MaxRelativeNumber)
    \cup {L + k : L \in {TimedeltaLimitMinutes, TimedeltaLimitHours, TimedeltaLimitDays,
                         TimedeltaLimitWeeks, TimedeltaLimitDays \div MonthDays,
                         TimedeltaLimitDays \div YearDays},
                  k \in {0, 1}}

upper_char(c) ==
  IF \E i \in 1..26 : LowerCase[i] = c
  THEN UpperCase[CHOOSE i \in 1..26 : LowerCase[i] = c]
  ELSE c

upper(s) == [i \in 1..Len(s) |-> upper_char(s[i])]

\* "<N> <unit> ago", "<N> <unit>s ago" and the latter in capitals
RelativePhrases ==
  {IntToDigits(n) \o <<" ">> \o Units[u] \o <<" ">> \o Ago :
     n \in RelativeNumbers, u \in 1..Len(Units)}
  \cup {IntToDigits(n) \o <<" ">> \o Units[u] \o <<"s", " ">> \o Ago :
     n \in RelativeNumbers, u \in 1..Len(Units)}
  \cup {upper(IntToDigits(n) \o <<" ">> \o Units[u] \o <<"s", " ">> \o Ago) :
     n \in RelativeNumbers, u \in 1..Len(Units)}

OtherDateTexts ==
  { <<>>,
    NotAvailable,
    <<" ", "N", "/", "A", " ">>,
    <<" ", " ", " ">>,
    <<"y", "e", "s", "t", "e", "r", "d", "a", "y">>,
    <<" ", "C", "h", "i", "c", "a", "g", "o">>,
    <<"p", "o", "s", "t", "e", "d", " ", "2", "h", "o", "u", "r", "s", "a", "g", "o">>,
    <<" ", "2", "0", "2", "5", "-", "0", "5", "-", "0", "7", " ">>,
    <<"0", "3", "/", "0", "4", "/", "2", "0", "2", "5">>,
    <<"2", "4", "/", "0", "4", "/", "2", "0", "2", "5">>,
    <<"3", "1", "/", "0", "2", "/", "2", "0", "2", "5">>,
    <<"3", "/", "4", "/", "2", "0", "2", "5">>,
    <<"1", "2", "/", "1", "3", "/", "2", "0", "2", "5">>,
    <<"2", "0", "2", "5", ".", "0", "1", ".", "0", "7">>,
    <<"M", "a", "y", " ", "7", ",", " ", "2", "0", "2", "5">>,
    <<"s", "e", "p", " ", "0", "7", ",", " ", "2", "0", "2", "5">>,
    <<"0", "4", "/", "2", "4", "/", "2", "5", " ", "8", ":", "0", "8", ":", "1", "1", " ",
      "P", "M">>,
    <<"2", "0", "2", "5", "-", "0", "5", "-", "0", "7", "T", "2", "3", ":", "3", "5", ":",
      "3", "5">>,
    <<"2", "0", "2", "5", "-", "0", "5", "-", "0", "7", " ", "2", "3", ":", "3", "5", ":",
      "3", "5">>,
    <<"0", "7", "-", "0", "5", "-", "2", "0", "2", "5">>,
    <<"2", "0", "2", "4", "/", "0", "2", "/", "2", "9">> }

DateInputs == {NaN} \cup RelativePhrases \cup OtherDateTexts

\* datetime.now(): 2025-01-10 and 2024-03-01, half past midnight and one
\* minute before midnight
Nows ==
  {[day |-> d, minute |-> m] : d \in {ymd2ord(2025, 1, 10), ymd2ord(2024, 3, 1)},
                               m \in {30, 1439}}

\* a date pd.to_datetime reads from a text none of the formats reads
FlexibleDate == [year |-> 2025, month |-> 1, day |-> 7]

\* ------------------------------------------------ standardize_date_format
\* "if pd.isna(date_str) or date_str == "N/A" or not date_str"
guard_hit(s) == s = NaN \/ s = NotAvailable \/ s = <<>>

\* the relative branch is taken: "ago" is in the text and the pattern matches
relative_hit(s) == contains(lower(s), Ago) /\ re_search(lower(s)).ok

date_returns(out, tier) ==
  /\ date_out' = out
  /\ date_tier' = tier
  /\ datePc' = "returned"
  /\ UNCHANGED <<date_str, now>>
  /\ UNCHANGED <<harvVars, rankVars, selVars, aggVars>>

standardize_guard ==
  /\ datePc = "idle"
  /\ guard_hit(date_str)
  /\ date_returns(NotAvailable, "guard")

\* the relative branch returns target_date.strftime("%Y/%m/%d")
standardize_relative ==
  /\ datePc = "idle"
  /\ ~guard_hit(date_str)
  /\ relative_hit(strip(date_str))
  /\ LET match == re_search(lower(strip(date_str)))
         number == DigitsToInt(match.number)
     IN /\ ~timedelta_overflows(match.unit, number)
        /\ date_returns(strftime(ord2ymd(target_day(now, match.unit, number))), "relative")

\* pd.Timedelta raises in the relative branch; the outer except returns "N/A"
standardize_relative_error ==
  /\ datePc = "idle"
  /\ ~guard_hit(date_str)
  /\ relative_hit(strip(date_str))
  /\ LET match == re_search(lower(strip(date_str)))
     IN timedelta_overflows(match.unit, DigitsToInt(match.number))
  /\ date_returns(NotAvailable, "error")

\* one of formats_to_try reads the text
standardize_explicit ==
  /\ datePc = "idle"
  /\ ~guard_hit(date_str)
  /\ ~relative_hit(strip(date_str))
  /\ first_parse(strip(date_str)).ok
  /\ date_returns(strftime(first_parse(strip(date_str))), "explicit")

\* no format reads the text, pd.to_datetime does; the flexible parser is a
\* library call, and what it makes of a text with a digit is left open
standardize_flexible ==
  /\ datePc = "idle"
  /\ ~guard_hit(date_str)
  /\ ~relative_hit(strip(date_str))
  /\ ~first_parse(strip(date_str)).ok
  /\ \E i \in 1..Len(date_str) : IsDigit(date_str[i])
  /\ date_returns(strftime(FlexibleDate), "flexible")

\* variant: the last fallback returns the sentinel
standardize_original_sentinel ==
  /\ datePc = "idle"
  /\ ~guard_hit(date_str)
  /\ ~relative_hit(strip(date_str))
  /\ ~first_parse(strip(date_str)).ok
  /\ date_returns(NotAvailable, "original")

\* no format reads the text and pd.to_datetime gives NaT: "return date_str"
standardize_original ==
  /\ datePc = "idle"
  /\ ~guard_hit(date_str)
  /\ ~relative_hit(strip(date_str))
  /\ ~first_parse(strip(date_str)).ok
  /\ date_returns(strip(date_str), "original")

DateInit ==
  /\ date_str \in DateInputs
  /\ now \in Nows
  /\ date_out = <<>>
  /\ date_tier = "none"
  /\ datePc = "idle"

InitDate == DateInit /\ HarvIdle /\ RankIdle /\ SelIdle /\ AggIdle

NextDate ==
  \/ standardize_guard
  \/ standardize_relative
  \/ standardize_relative_error
  \/ standardize_explicit
  \/ standardize_flexible
  \/ standardize_original

SpecDate == InitDate /\ [][NextDate]_vars

\* ======================================================================
\* The aggregation tab (render_aggregation_tab, src/aggregation_tab.py)
\* ======================================================================
\* str.endswith(suffix)
endswith(s, suffix) ==
  Len(s) >= Len(suffix) /\ SubSeq(s, Len(s) - Len(suffix) + 1, Len(s)) = suffix

PrefixTalkwalker == <<"t", "a", "l", "k", "w", "a", "l", "k", "e", "r">>
PrefixExport == <<"e", "x", "p", "o", "r", "t">>
PrefixGoogleNews == <<"g", "o", "o", "g", "l", "e", "n", "e", "w", "s">>
SuffixCsv == <<".", "c", "s", "v">>
SuffixXlsx == <<".", "x", "l", "s", "x">>

\* the platform is read off the start of the file name
platform_of(file_name) ==
  IF startswith(lower(file_name), PrefixTalkwalker)
       \/ startswith(lower(file_name), PrefixExport)
  THEN "Talkwalker"
  ELSE IF startswith(lower(file_name), PrefixGoogleNews) THEN "Google News"
  ELSE "Newswhip"

\* a cell of a table: a constant text, a missing value (NaN), the cell of a
\* raw column, or standardize_date_format applied to the cell of a raw column
Const(text) == [kind |-> "const", text |-> text, file |-> 0, col |-> "", row |-> 0]
NaNCell == [kind |-> "nan", text |-> "", file |-> 0, col |-> "", row |-> 0]
RawCell(f, c, r) == [kind |-> "raw", text |-> "", file |-> f, col |-> c, row |-> r]
DateCell(f, c, r) == [kind |-> "date", text |-> "", file |-> f, col |-> c, row |-> r]

CountrySource == "extra_source_attributes.world_data.country"
CountryAuthor == "extra_author_attributes.world_data.country"
CountryArticle == "extra_article_attributes.world_data.country"

\* one assignment to standardized_df: the raw columns tried in order, the
\* constant used when none is there, and whether the column goes through
\* standardize_date_format
Step(field, candidates, default, isDate) ==
  [field |-> field, candidates |-> candidates, default |-> default, isDate |-> isDate]

TalkwalkerSteps ==
  << Step("Title", <<"title", "title_snippet">>, "N/A", FALSE),
     Step("URL", <<"url">>, "N/A", FALSE),
     Step("Platform", <<>>, "Talkwalker", FALSE),
     Step("Source", <<"domain_url">>, "Talkwalker", FALSE),
     Step("Sentiment", <<"sentiment">>, "N/A", FALSE),
     Step("Language", <<"lang">>, "N/A", FALSE),
     Step("Country", <<CountrySource, CountryAuthor, CountryArticle>>, "N/A", FALSE),
     Step("Source_Type", <<"source_type">>, "N/A", FALSE),
     Step("Published_Date", <<"published", "indexed">>, "N/A", TRUE) >>

NewswhipSteps ==
  << Step("Title", <<"Headline">>, "N/A", FALSE),
     Step("URL", <<"Link">>, "N/A", FALSE),
     Step("Platform", <<>>, "Newswhip", FALSE),
     Step("Source", <<"Domain">>, "Newswhip", FALSE),
     Step("Sentiment", <<>>, "N/A", FALSE),
     Step("Language", <<>>, "N/A", FALSE),
     Step("Country", <<"Country">>, "N/A", FALSE),
     Step("Source_Type", <<>>, "News", FALSE),
     Step("Published_Date", <<"Published">>, "N/A", TRUE) >>

GoogleNewsSteps ==
  << Step("Title", <<"title">>, "N/A", FALSE),
     Step("URL", <<"link">>, "N/A", FALSE),
     Step("Platform", <<>>, "Google News", FALSE),
     Step("Source", <<"source">>, "Google News", FALSE),
     Step("Sentiment", <<>>, "N/A", FALSE),
     Step("Language", <<>>, "N/A", FALSE),
     Step("Country", <<>>, "N/A", FALSE),
     Step("Source_Type", <<>>, "News", FALSE),
     Step("Published_Date", <<"date">>, "N/A", TRUE),
     Step("Search_Keyword", <<"search_keyword">>, "N/A", FALSE) >>

platform_steps(platform) ==
  IF platform = "Talkwalker" THEN TalkwalkerSteps
  ELSE IF platform = "Newswhip" THEN NewswhipSteps
  ELSE GoogleNewsSteps

\* variant: the last candidate that is a column of the table
first_present_last(candidates, columns) ==
  LET present == {i \in 1..Len(candidates) : candidates[i] \in columns}
  IN IF present = {} THEN ""
     ELSE candidates[CHOOSE i \in present : \A j \in present : i >= j]

\* the if / elif chain: the first candidate that is a column of the table
first_present(candidates, columns) ==
  LET present == {i \in 1..Len(candidates) : candidates[i] \in columns}
  IN IF present = {} THEN ""
     ELSE candidates[CHOOSE i \in present : \A j \in present : i <= j]

\* pd.DataFrame()
EmptyFrame == [columns |-> <<>>, nrows |-> 0, data |-> <<>>]

set_column(frame, field, values) ==
  [frame EXCEPT !.columns = Append(@, field), !.data = Append(@, values)]

\* standardized_df[field] = "text": the text in every row the table has
assign_scalar(frame, field, text) ==
  set_column(frame, field, [r \in 1..frame.nrows |-> Const(text)])

\* standardized_df[field] = series: a table without rows first takes the
\* index of a non-empty series, and the columns it has are filled with NaN
assign_series(frame, field, series) ==
  IF frame.nrows = 0 /\ Len(series) > 0
  THEN set_column([columns |-> frame.columns,
                   nrows |-> Len(series),
                   data |-> [c \in 1..Len(frame.data) |->
                               [r \in 1..Len(series) |-> NaNCell]]],
                  field, series)
  ELSE set_column(frame, field, series)

assign_step(frame, step, table, f) ==
  LET column == first_present(step.candidates, table.columns)
  IN IF column = "" THEN assign_scalar(frame, step.field, step.default)
     ELSE assign_series(frame, step.field,
                        [r \in 1..table.nrows |->
                           IF step.isDate THEN DateCell(f, column, r)
                           ELSE RawCell(f, column, r)])

RECURSIVE assign_steps(_, _, _, _)
assign_steps(frame, steps, table, f) ==
  IF steps = <<>> THEN frame
  ELSE assign_steps(assign_step(frame, Head(steps), table, f), Tail(steps), table, f)

\* the rows of a table, each a function from its columns to cells
rows_of(frame) ==
  [r \in 1..frame.nrows |->
     [c \in {frame.columns[i] : i \in 1..Len(frame.columns)} |->
        frame.data[CHOOSE i \in 1..Len(frame.columns) : frame.columns[i] = c][r]]]

\* standardized_df of the file at position f, read into the table given
standardize(file_name, table, f) ==
  LET frame == assign_steps(EmptyFrame, platform_steps(platform_of(file_name)), table,
                            table.file)
  IN [file |-> f, table |-> table.file, columns |-> frame.columns, rows |-> rows_of(frame)]

MaxFiles == 2          \* files uploaded in one run
MaxRows == 2           \* rows of an uploaded table

TalkwalkerColumns ==
  {"title", "url", "domain_url", "sentiment", "lang", CountrySource, "source_type",
   "published"}
TalkwalkerFallbackColumns ==
  {"title_snippet", "url", CountryAuthor, CountryArticle, "indexed"}
NewswhipColumns == {"Headline", "Link", "Domain", "Country", "Published"}
GoogleNewsColumns == {"title", "link", "source", "date", "search_keyword"}

Upload(name, columns, readable) ==
  [name |-> name, columns |-> columns, readable |-> readable]

\* the uploads tried: full and partial exports of each platform, an export
\* holding every candidate column, a table
\* with no column the schema knows, a name with an upper-case extension and
\* a file the reader rejects
SampleUploads ==
  { Upload(<<"t", "a", "l", "k", "w", "a", "l", "k", "e", "r", ".", "c", "s", "v">>, TalkwalkerColumns, TRUE),
    Upload(<<"E", "x", "p", "o", "r", "t", ".", "x", "l", "s", "x">>, TalkwalkerFallbackColumns, TRUE),
    Upload(<<"t", "a", "l", "k", "w", "a", "l", "k", "e", "r", ".", "c", "s", "v">>, {"url"}, TRUE),
    Upload(<<"t", "a", "l", "k", "w", "a", "l", "k", "e", "r", ".", "c", "s", "v">>,
           TalkwalkerColumns \cup TalkwalkerFallbackColumns, TRUE),
    Upload(<<"n", "e", "w", "s", ".", "c", "s", "v">>, NewswhipColumns, TRUE),
    Upload(<<"n", "e", "w", "s", ".", "c", "s", "v">>, {"Link"}, TRUE),
    Upload(<<"g", "o", "o", "g", "l", "e", "n", "e", "w", "s", ".", "c", "s", "v">>, GoogleNewsColumns, TRUE),
    Upload(<<"g", "o", "o", "g", "l", "e", "n", "e", "w", "s", ".", "c", "s", "v">>, {"date"}, TRUE),
    Upload(<<"n", "e", "w", "s", ".", "c", "s", "v">>, {"id"}, TRUE),
    Upload(<<"e", "x", "p", "o", "r", "t", ".", "C", "S", "V">>, TalkwalkerColumns, TRUE),
    Upload(<<"t", "a", "l", "k", "w", "a", "l", "k", "e", "r", ".", "c", "s", "v">>, TalkwalkerColumns, FALSE) }

UploadedFiles ==
  { [name |-> u.name, columns |-> u.columns, readable |-> u.readable, nrows |-> n] :
      u \in {s \in SampleUploads : s.readable}, n \in 0..MaxRows }
  \cup { [name |-> u.name, columns |-> u.columns, readable |-> u.readable, nrows |-> 0] :
      u \in {s \in SampleUploads : ~s.readable} }

\* the file name ends in '.csv' or '.xlsx', so a reader is called
is_read(file_name) == endswith(file_name, SuffixCsv) \/ endswith(file_name, SuffixXlsx)

Message(kind, f) == [kind |-> kind, file |-> f]

\* "if uploaded_files:" with files: the loop starts on an empty list
render_start ==
  /\ aggPc = "idle"
  /\ uploaded_files # <<>>
  /\ aggPc' = "loop"
  /\ file_idx' = 0
  /\ df' = Unbound
  /\ all_dataframes' = <<>>
  /\ messages' = <<>>
  /\ UNCHANGED <<uploaded_files, aggregated_data>>
  /\ UNCHANGED <<harvVars, rankVars, selVars, dateVars>>

\* "if uploaded_files:" without files: nothing is done
render_without_files ==
  /\ aggPc = "idle"
  /\ uploaded_files = <<>>
  /\ aggPc' = "done"
  /\ UNCHANGED <<uploaded_files, file_idx, df, all_dataframes, aggregated_data, messages>>
  /\ UNCHANGED <<harvVars, rankVars, selVars, dateVars>>

\* from "standardized_df = pd.DataFrame()" to the end of the try block, for
\* the file at position f and the table df holds
collect(f, table) ==
  LET standardized_df == standardize(uploaded_files[f].name, table, f)
  IN IF standardized_df.rows # <<>>
     THEN /\ all_dataframes' = Append(all_dataframes, standardized_df)
          /\ messages' = Append(messages, Message("success", f))
     ELSE UNCHANGED <<all_dataframes, messages>>

LoadedTable(f) ==
  [bound |-> TRUE, columns |-> uploaded_files[f].columns,
   nrows |-> uploaded_files[f].nrows, file |-> f]

\* one pass of the loop: the reader loads the file
process_file_read ==
  /\ aggPc = "loop"
  /\ file_idx < Len(uploaded_files)
  /\ LET f == file_idx + 1
     IN /\ is_read(uploaded_files[f].name)
        /\ uploaded_files[f].readable
        /\ df' = LoadedTable(f)
        /\ collect(f, LoadedTable(f))
        /\ file_idx' = f
  /\ UNCHANGED <<uploaded_files, aggregated_data, aggPc>>
  /\ UNCHANGED <<harvVars, rankVars, selVars, dateVars>>

\* one pass of the loop: the reader raises, "except Exception" reports it
process_file_read_error ==
  /\ aggPc = "loop"
  /\ file_idx < Len(uploaded_files)
  /\ LET f == file_idx + 1
     IN /\ is_read(uploaded_files[f].name)
        /\ ~uploaded_files[f].readable
        /\ messages' = Append(messages, Message("error", f))
        /\ file_idx' = f
  /\ UNCHANGED <<uploaded_files, df, all_dataframes, aggregated_data, aggPc>>
  /\ UNCHANGED <<harvVars, rankVars, selVars, dateVars>>

\* one pass of the loop: no reader is called and df still holds the table of
\* an earlier file
process_file_not_read ==
  /\ aggPc = "loop"
  /\ file_idx < Len(uploaded_files)
  /\ LET f == file_idx + 1
     IN /\ ~is_read(uploaded_files[f].name)
        /\ df.bound
        /\ collect(f, df)
        /\ file_idx' = f
  /\ UNCHANGED <<uploaded_files, df, aggregated_data, aggPc>>
  /\ UNCHANGED <<harvVars, rankVars, selVars, dateVars>>

\* one pass of the loop: no reader is called and df was never assigned, so
\* "df.columns" raises and "except Exception" reports it
process_file_unbound ==
  /\ aggPc = "loop"
  /\ file_idx < Len(uploaded_files)
  /\ LET f == file_idx + 1
     IN /\ ~is_read(uploaded_files[f].name)
        /\ ~df.bound
        /\ messages' = Append(messages, Message("error", f))
        /\ file_idx' = f
  /\ UNCHANGED <<uploaded_files, df, all_dataframes, aggregated_data, aggPc>>
  /\ UNCHANGED <<harvVars, rankVars, selVars, dateVars>>

\* the columns of pd.concat: those of the tables, in order of first appearance
RECURSIVE concat_columns(_)
concat_columns(frames) ==
  IF frames = <<>> THEN <<>>
  ELSE LET before == concat_columns(SubSeq(frames, 1, Len(frames) - 1))
           seen == {before[i] : i \in 1..Len(before)}
       IN before \o SelectSeq(frames[Len(frames)].columns, LAMBDA c : c \notin seen)

\* the rows of pd.concat(ignore_index=True): a cell of a column the row's
\* table does not have is NaN
RECURSIVE concat_rows(_, _)
concat_rows(frames, columns) ==
  IF frames = <<>> THEN <<>>
  ELSE [r \in 1..Len(Head(frames).rows) |->
          [c \in columns |->
             IF c \in DOMAIN Head(frames).rows[r] THEN Head(frames).rows[r][c]
             ELSE NaNCell]]
       \o concat_rows(Tail(frames), columns)

concat(frames) ==
  LET columns == concat_columns(frames)
  IN [set |-> TRUE, columns |-> columns,
      rows |-> concat_rows(frames, {columns[i] : i \in 1..Len(columns)})]

\* after the loop: "if all_dataframes:" stores the combined table
combine ==
  /\ aggPc = "loop"
  /\ file_idx = Len(uploaded_files)
  /\ all_dataframes # <<>>
  /\ aggregated_data' = concat(all_dataframes)
  /\ aggPc' = "done"
  /\ UNCHANGED <<uploaded_files, file_idx, df, all_dataframes, messages>>
  /\ UNCHANGED <<harvVars, rankVars, selVars, dateVars>>

\* after the loop: nothing was collected, st.warning
combine_nothing ==
  /\ aggPc = "loop"
  /\ file_idx = Len(uploaded_files)
  /\ all_dataframes = <<>>
  /\ messages' = Append(messages, Message("warning", 0))
  /\ aggPc' = "done"
  /\ UNCHANGED <<uploaded_files, file_idx, df, all_dataframes, aggregated_data>>
  /\ UNCHANGED <<harvVars, rankVars, selVars, dateVars>>

UploadsUpTo(n) == UNION {[1..k -> UploadedFiles] : k \in 0..n}

AggInit ==
  /\ uploaded_files \in UploadsUpTo(MaxFiles)
  /\ aggPc = "idle"
  /\ file_idx = 0
  /\ df = Unbound
  /\ all_dataframes = <<>>
  /\ aggregated_data = NoAggregate
  /\ messages = <<>>

InitAgg == HarvIdle /\ RankIdle /\ SelIdle /\ DateIdle /\ AggInit

NextAgg ==
  \/ render_start
  \/ render_without_files
  \/ process_file_read
  \/ process_file_read_error
  \/ process_file_not_read
  \/ process_file_unbound
  \/ combine
  \/ combine_nothing

SpecAgg == InitAgg /\ [][NextAgg]_vars

\* ---- aggregation runs that follow one another in a session
\* the files of the sessions with several runs: a loaded export of two
\* platforms, a file the reader rejects, a name no reader is called for
RerunFiles ==
  { [name |-> u.name, columns |-> u.columns, readable |-> u.readable,
     nrows |-> IF u.readable THEN 1 ELSE 0] :
      u \in { Upload(<<"n", "e", "w", "s", ".", "c", "s", "v">>, NewswhipColumns, TRUE),
              Upload(<<"g", "o", "o", "g", "l", "e", "n", "e", "w", "s", ".", "c", "s", "v">>,
                     GoogleNewsColumns, TRUE),
              Upload(<<"e", "x", "p", "o", "r", "t", ".", "C", "S", "V">>,
                     TalkwalkerColumns, TRUE),
              Upload(<<"t", "a", "l", "k", "w", "a", "l", "k", "e", "r", ".", "c", "s", "v">>,
                     TalkwalkerColumns, FALSE) } }

RerunUploads == UNION {[1..k -> RerunFiles] : k \in 0..MaxFiles}

\* the uploader changes and the script runs again: the locals are gone,
\* st.session_state is kept
render_again ==
  /\ aggPc = "done"
  /\ uploaded_files' \in RerunUploads
  /\ aggPc' = "idle"
  /\ file_idx' = 0
  /\ df' = Unbound
  /\ all_dataframes' = <<>>
  /\ messages' = <<>>
  /\ UNCHANGED aggregated_data
  /\ UNCHANGED <<harvVars, rankVars, selVars, dateVars>>

ReaggInit ==
  /\ uploaded_files \in RerunUploads
  /\ aggPc = "idle"
  /\ file_idx = 0
  /\ df = Unbound
  /\ all_dataframes = <<>>
  /\ aggregated_data = NoAggregate
  /\ messages = <<>>

InitReagg == HarvIdle /\ RankIdle /\ SelIdle /\ DateIdle /\ ReaggInit

NextReagg ==
  \/ render_start
  \/ render_without_files
  \/ process_file_read
  \/ process_file_read_error
  \/ process_file_not_read
  \/ process_file_unbound
  \/ combine
  \/ combine_nothing
  \/ render_again

SpecReagg == InitReagg /\ [][NextReagg]_vars

\* ---- vocabulary of the claims, stated without the operators of the code
Range(seq) == {seq[i] : i \in 1..Len(seq)}
Links(seq) == {seq[i].link : i \in 1..Len(seq)}

\* the keyword string holds nothing but blanks and commas
BlankInput(raw) == \A i \in 1..Len(raw) : raw[i] \in Whitespace \cup {","}

IsAbsolute(link) ==
  Len(link) >= 4 /\ link[1] = "h" /\ link[2] = "t" /\ link[3] = "t" /\ link[4] = "p"

TitleFetchSucceeds(el) ==
  el.fetch.kind = "ok" /\ el.fetch.code = 200 /\ el.fetch.hasTitle
    /\ strip(el.fetch.title) # <<>>

\* the title a parsed element ends up with
EnrichedTitle(el) ==
  IF IsAbsolute(el.href) /\ TitleFetchSucceeds(el)
  THEN strip(el.fetch.title) ELSE strip(el.title)

\* an element is a stub candidate when it has a non-empty link
HasLink(el) == el.hasHref /\ el.href # <<>>

\* the records a page answer stands for
ExpectedPageStubs(resp) ==
  IF resp.kind # "ok" THEN <<>>
  ELSE LET kept == SelectSeq(resp.els, LAMBDA el : HasLink(el) /\ EnrichedTitle(el) # <<>>)
       IN [i \in 1..Len(kept) |-> [link |-> kept[i].href, title |-> EnrichedTitle(kept[i])]]

Tasks == {t \in KwIds \X (1..max_pages) : TRUE}
DoneTasks == {t \in Tasks : /\ t[2] \in PageIds(t[1])
                            /\ pageState[t[1]][t[2]] = "done"}

\* URLs the fixed page answers of this run contain, whatever the schedule
ExpectedUrls == UNION {Links(ExpectedPageStubs(ResponseOf(t[1], t[2]))) : t \in Tasks}

\* URLs of the stubs the page tasks returned
ReturnedUrls == UNION {Links(page_result[t[1]][t[2]]) : t \in DoneTasks}

FirstIndex(seq, u) == CHOOSE i \in 1..Len(seq) :
  seq[i].link = u /\ \A j \in 1..(i - 1) : seq[j].link # u

\* C1: the deduplicated result of a harvest run never holds two records
\* with the same URL, whatever the schedule and the page answers.
C1_NoDuplicateUrl ==
  \A i, j \in 1..Len(unique_results) :
    i # j => unique_results[i].link # unique_results[j].link

C1_Witness ==
  /\ pc = "done"
  /\ Len(unique_results) >= 2
  /\ \E i, j \in 1..Len(all_results) : i # j /\ all_results[i].link = all_results[j].link

\* C2: every URL returned by some page task survives exactly once, and the
\* survivor is the first record with that URL in the merged list.
C2_ExactlyOneFirstSeen ==
  pc = "done" =>
    \A u \in ReturnedUrls :
      /\ Cardinality({i \in 1..Len(unique_results) : unique_results[i].link = u}) = 1
      /\ \E i \in 1..Len(all_results) : all_results[i].link = u
      /\ \A i \in 1..Len(unique_results) :
           unique_results[i].link = u =>
             unique_results[i] = all_results[FirstIndex(all_results, u)]

\* page 1 and page 2 of one keyword returned the same URL with different titles
C2_Witness ==
  /\ pc = "done"
  /\ \E k \in KwIds :
       /\ PageIds(k) = 1..2
       /\ \E i \in 1..Len(page_result[k][1]), j \in 1..Len(page_result[k][2]) :
            /\ page_result[k][1][i].link = page_result[k][2][j].link
            /\ page_result[k][1][i].title # page_result[k][2][j].title
  /\ Len(unique_results) < Len(all_results)

\* C3: a keyword string that is empty after splitting and trimming makes
\* get_news_data raise ValueError with no pool created, no task submitted
\* and no request issued.
C3_RejectBeforeWork ==
  BlankInput(keyword) =>
    /\ pc \in {"start", "raised"}
    /\ pc = "raised" => ret.kind = "ValueError"
    /\ executors = {}
    /\ requests = {}
    /\ kwState = <<>>
    /\ titleFetches = <<>>

C3_Witness ==
  /\ pc = "raised"
  /\ ret.kind = "ValueError"
  /\ keyword # <<>>

\* C4: at most min(3, keywordCount) keyword tasks run at once, at most
\* min(5, max_pages) page tasks of one keyword task run at once, hence at
\* most 15 page fetches are in flight.
C4_BoundedFanout ==
  /\ Cardinality(RunningKeywords) <= Min(3, Len(keywords))
  /\ \A k \in KwIds : Cardinality(RunningPages(k)) <= Min(5, max_pages)
  /\ Cardinality({t \in Tasks : /\ t[2] \in PageIds(t[1])
                                /\ pageState[t[1]][t[2]] = "running"}) <= 15

\* the keyword pool is saturated while a further keyword waits
C4_Witness ==
  /\ Cardinality(RunningKeywords) = 3
  /\ \E k \in KwIds : kwState[k] = "queued"

\* the page pool of a keyword is saturated while a further page waits
C4_PagePoolSaturated ==
  \E k \in KwIds :
    /\ Cardinality(RunningPages(k)) = 5
    /\ \E p \in PageIds(k) : pageState[k][p] = "queued"

\* C5: a keyword task has returned only when all its page tasks are done,
\* and deduplication/return happens only when every keyword task and every
\* page task is finished.
C5_BlockingJoin ==
  /\ \A k \in KwIds :
       kwState[k] = "done" =>
         /\ PageIds(k) = 1..max_pages
         /\ \A p \in PageIds(k) : pageState[k][p] = "done"
  /\ pc = "done" =>
       /\ \A k \in KwIds : kwState[k] \in {"done", "failed"}
       /\ \A k \in KwIds : \A p \in PageIds(k) : pageState[k][p] = "done"

C5_Witness ==
  /\ pc = "done"
  /\ Len(keywords) >= 2
  /\ max_pages >= 2
  /\ \A k \in KwIds : kwState[k] = "done"

RECURSIVE SumLen(_)
SumLen(S) ==
  IF S = {} THEN 0
  ELSE LET t == CHOOSE x \in S : TRUE
       IN Len(ExpectedPageStubs(ResponseOf(t[1], t[2]))) + SumLen(S \ {t})

FailedAnswer(k, p) == ResponseOf(k, p).kind \in {"request_error", "exception"}

\* C6: a page that times out, fails, raises while parsing or yields no stub
\* contributes an empty result; the stubs of all other pages still reach the
\* merge input and get_news_data does not raise.
C6_FailedPagesAbsorbed ==
  /\ ret.kind = "ValueError" => BlankInput(keyword)
  /\ \A t \in DoneTasks :
       ExpectedPageStubs(ResponseOf(t[1], t[2])) = <<>> => page_result[t[1]][t[2]] = <<>>
  /\ (pc = "done" /\ max_pages > 0) =>
       /\ \A t \in Tasks :
            \A stub \in Range(ExpectedPageStubs(ResponseOf(t[1], t[2]))) :
              [link |-> stub.link, title |-> stub.title,
               search_keyword |-> keywords[t[1]]] \in Range(all_results)
       /\ Len(all_results) = SumLen(Tasks)

\* one page of a keyword failed, another page of the same keyword gave stubs
C6_Witness ==
  /\ pc = "done"
  /\ ret.kind = "file"
  /\ \E k \in KwIds : \E p1, p2 \in PageIds(k) :
       /\ FailedAnswer(k, p1)
       /\ page_result[k][p2] # <<>>

\* C7: with the page answers fixed, the set of URLs in the output is the set
\* of URLs those answers contain, independent of the completion order.
C7_OrderIndependentUrls ==
  pc = "done" => Links(unique_results) = ExpectedUrls

\* a run whose merged list starts with a keyword other than the first one
C7_Witness ==
  /\ pc = "done"
  /\ Len(keywords) >= 2
  /\ all_results # <<>>
  /\ all_results[1].search_keyword # keywords[1]
  /\ Cardinality(ExpectedUrls) >= 2
  /\ Len(unique_results) < Len(all_results)

\* C8 as stated: when no stub survives, the caller receives an empty
\* collection (and no error).
C8_EmptyCollectionReturned ==
  (pc = "done" /\ ExpectedUrls = {}) => (ret.kind = "file" /\ ret.rows = <<>>)

\* C8 amended: when no stub survives, get_news_data returns None, writes no
\* export, and does not raise.
C8_NoneReturned ==
  /\ (pc = "done" /\ ExpectedUrls = {}) => (ret = NoneValue /\ unique_results = <<>>)
  /\ ~BlankInput(keyword) => ret.kind # "ValueError"
  /\ ret = NoneValue => (pc = "done" /\ ExpectedUrls = {})

C8_Witness ==
  /\ pc = "done"
  /\ ret = NoneValue
  /\ \E t \in DoneTasks : FailedAnswer(t[1], t[2])
  /\ \E t \in DoneTasks : ResponseOf(t[1], t[2]) = RespNoArticles

\* C9: two page tasks that differ in keyword or page number never write the
\* same debug file name.
C9_UniqueDumpKeys ==
  \A d1, d2 \in dumps :
    (keywords[d1.task[1]] # keywords[d2.task[1]] \/ d1.task[2] # d2.task[2])
      => d1.name # d2.name

AbsoluteLinks(els) ==
  LET abs == SelectSeq(els, LAMBDA el : HasLink(el) /\ IsAbsolute(el.href))
  IN [i \in 1..Len(abs) |-> abs[i].href]

OkDoneTasks == {t \in DoneTasks : ResponseOf(t[1], t[2]).kind = "ok"}

FetchedOncePerAbsoluteLink ==
  /\ \A t \in OkDoneTasks :
       titleFetches[t[1]][t[2]] = AbsoluteLinks(ResponseOf(t[1], t[2]).els)
  /\ \A t \in DoneTasks \ OkDoneTasks : titleFetches[t[1]][t[2]] = <<>>

\* C10 as stated: one title request per element with an absolute link and
\* none for the others; every element with a link stays in the page result,
\* with the fetched title when the fetch gave one and with its truncated
\* title otherwise.
C10_EveryStubKept ==
  /\ FetchedOncePerAbsoluteLink
  /\ \A t \in OkDoneTasks :
       \A el \in Range(ResponseOf(t[1], t[2]).els) :
         HasLink(el) =>
           [link |-> el.href, title |-> EnrichedTitle(el)] \in Range(page_result[t[1]][t[2]])

\* C10 amended: as above, but an element stays in the page result exactly
\* when the title it ends up with is non-empty.
C10_TitleEnrichment ==
  /\ FetchedOncePerAbsoluteLink
  /\ \A t \in OkDoneTasks :
       page_result[t[1]][t[2]] = ExpectedPageStubs(ResponseOf(t[1], t[2]))

\* a page whose title fetch timed out kept the truncated title, and a page
\* whose title fetch succeeded shows the fetched title
C10_Witness ==
  /\ \E t \in OkDoneTasks :
       /\ ElTimeout \in Range(ResponseOf(t[1], t[2]).els)
       /\ [link |-> ElTimeout.href, title |-> <<"d">>] \in Range(page_result[t[1]][t[2]])
       /\ Len(titleFetches[t[1]][t[2]]) = 3
  /\ \E t \in OkDoneTasks :
       /\ ElFull \in Range(ResponseOf(t[1], t[2]).els)
       /\ [link |-> ElFull.href, title |-> <<"E">>] \in Range(page_result[t[1]][t[2]])

\* ---- the hybrid ranker
InScoreRange(x) == 0 <= x /\ x <= MaxScore * ScoreUnit

Ranked == rankPc = "returned" /\ result_df.scored

\* C11: every Keyword_Score, Semantic_Score and Relevance_Score of a table
\* returned by calculate_combined_relevance_score lies between 0 and 100.
C11_ScoresWithinRange ==
  \A i \in 1..Len(result_df.rows) :
    /\ InScoreRange(result_df.rows[i].Keyword_Score)
    /\ InScoreRange(result_df.rows[i].Semantic_Score)
    /\ InScoreRange(result_df.rows[i].Relevance_Score)

\* a ranked table where the ceiling and the rounding both had to act
C11_Witness ==
  /\ Ranked
  /\ \E i \in 1..Len(result_df.rows) :
       LET row == result_df.rows[i] IN
       /\ keyword_search_score_unclamped(search_query, row.Title, row.snippet, row.Source)
            > MaxScore * ScoreUnit
       /\ semantic_scores.values[row.index] > MaxScore * ScoreUnit
       /\ row.Relevance_Score = MaxScore * ScoreUnit

\* C12: the ranked table is in non-increasing Relevance_Score order and rows
\* with equal Relevance_Score keep their input order.
C12_SortedAndStable ==
  \A i, j \in 1..Len(result_df.rows) :
    i < j =>
      /\ result_df.rows[i].Relevance_Score >= result_df.rows[j].Relevance_Score
      /\ result_df.rows[i].Relevance_Score = result_df.rows[j].Relevance_Score
           => result_df.rows[i].index < result_df.rows[j].index

\* maximal runs of letters and digits of the lowercased text
Tokens(text) ==
  IF text = NaN THEN {}
  ELSE LET l == lower(text)
           n == Len(l)
           IsRun(i, j) ==
             /\ i <= j
             /\ \A k \in i..j : l[k] \in AsciiAlnum
             /\ (i = 1 \/ l[i - 1] \notin AsciiAlnum)
             /\ (j = n \/ l[j + 1] \notin AsciiAlnum)
       IN {SubSeq(l, p[1], p[2]) : p \in {q \in (1..n) \X (1..n) : IsRun(q[1], q[2])}}

PhraseBonus(query, title, content) ==
  IF contains(preprocess_text(title), preprocess_text(query)) THEN 20
  ELSE IF contains(preprocess_text(content), preprocess_text(query)) THEN 10
  ELSE 0

\* min(100, 50*|Q n T|/|Q| + 40*|Q n C|/|Q| + 10*|Q n S|/|Q| + bonus), in units
ExpectedKeywordScore(query, title, content, source) ==
  LET Q == Tokens(query)
      T == Tokens(title)
      C == Tokens(content)
      S == Tokens(source)
  IN IF Q = {} THEN 0
     ELSE Min(100 * ScoreUnit,
              ((50 * Cardinality(Q \cap T) + 40 * Cardinality(Q \cap C)
                  + 10 * Cardinality(Q \cap S)) * ScoreUnit) \div Cardinality(Q)
                + PhraseBonus(query, title, content) * ScoreUnit)

\* C13: keyword_search_score is the clamped weighted token overlap plus one
\* phrase bonus (20 for the title, else 10 for the content); a query without
\* tokens scores 0; "Virat Kohli" against the title "Virat Kohli Scores
\* Century" with empty snippet and source scores 70.
C13_KeywordScoreFormula ==
  \A i \in 1..Len(result_df.rows) :
    LET row == result_df.rows[i] IN
    /\ row.Keyword_Score
         = ExpectedKeywordScore(search_query, row.Title, row.snippet, row.Source)
    /\ Tokens(search_query) = {} => row.Keyword_Score = 0
    /\ (search_query = QueryViratKohli /\ row.Title = TextCentury
          /\ row.snippet = <<>> /\ row.Source = <<>>)
         => row.Keyword_Score = 70 * ScoreUnit

\* the worked example was ranked
C13_Witness ==
  /\ Ranked
  /\ search_query = QueryViratKohli
  /\ \E i \in 1..Len(result_df.rows) :
       /\ result_df.rows[i].Title = TextCentury
       /\ result_df.rows[i].Keyword_Score = 70 * ScoreUnit

\* C16: when the semantic stage fails, the ranking still returns every
\* article, sorted, with Semantic_Score 0 and Relevance_Score equal to
\* 0.6 * Keyword_Score rounded to two decimals.
C16_SemanticFailureAbsorbed ==
  semantic_scores.failed =>
    /\ Ranked
    /\ Len(result_df.rows) = Len(articles_df.rows)
    /\ {result_df.rows[i].index : i \in 1..Len(result_df.rows)} = 1..Len(articles_df.rows)
    /\ \A i \in 1..Len(result_df.rows) :
         LET row == result_df.rows[i] IN
         /\ row.Semantic_Score = 0
         /\ row.Relevance_Score % Cent = 0
         /\ 10 * row.Relevance_Score - 6 * row.Keyword_Score <= 5 * Cent
         /\ 6 * row.Keyword_Score - 10 * row.Relevance_Score <= 5 * Cent
         /\ row.Title = articles_df.rows[row.index].Title
    /\ \A i, j \in 1..Len(result_df.rows) :
         i < j => result_df.rows[i].Relevance_Score >= result_df.rows[j].Relevance_Score

C16_Witness ==
  /\ semantic_scores.failed
  /\ Ranked
  /\ Len(result_df.rows) >= 2
  /\ result_df.rows[1].index # 1
  /\ result_df.rows[1].Keyword_Score > result_df.rows[2].Keyword_Score

\* C17 as stated: ranking an empty table always ends in a reported error.
C17_EmptySourceIsError ==
  (rankPc # "idle" /\ articles_df.rows = <<>>) =>
    (rankPc = "rejected" /\ ui_message = EmptySourceMessage)

\* C17: the search handler reports an empty table as an error and stops
\* before any scoring; calculate_combined_relevance_score itself, given an
\* empty table, reports nothing and returns the table as it is.
C17_HandlerRejectsRankReturns ==
  articles_df.rows = <<>> =>
    /\ rankPc = "rejected" =>
         /\ ui_message = EmptySourceMessage
         /\ keyword_scores = <<>>
         /\ result_df = [scored |-> FALSE, rows |-> <<>>]
    /\ rankPc = "returned" =>
         /\ ui_message = ""
         /\ keyword_scores = <<>>
         /\ result_df = [scored |-> FALSE, rows |-> articles_df.rows]

C17_Witness ==
  /\ rankPc = "rejected"
  /\ articles_df.rows = <<>>
  /\ search_query = QueryViratKohli

\* ---- the result selection
Selected == selPc = "returned" /\ scored_df # <<>>

\* C14: selecting by percentage returns the first
\* max(1, floor(available * pct / 100)) rows of the ranked table, never none.
C14_PercentageCount ==
  (Selected /\ selection_method = "Percentage") =>
    /\ top_results # <<>>
    /\ top_results
         = SubSeq(scored_df, 1, Max(1, (Len(scored_df) * selection_value) \div 100))

\* C15: selecting by count returns the first min(requested, available) rows.
C15_NumberCount ==
  (Selected /\ selection_method = "Number") =>
    top_results = SubSeq(scored_df, 1, Min(selection_value, Len(scored_df)))

\* a request below the table size and, in another run, one above it
C15_Witness ==
  /\ Selected
  /\ selection_method = "Number"
  /\ selection_value < Len(scored_df)
  /\ Len(top_results) = selection_value
  /\ selection_value >= 2

\* ---- the date normalizer
DateReturned == datePc = "returned"

\* the text is "<N> <unit> ago" or "<N> <unit>s ago" in any letter case
IsPhrase(text, n, u) ==
  \/ lower(text) = IntToDigits(n) \o <<" ">> \o Units[u] \o <<" ">> \o Ago
  \/ lower(text) = IntToDigits(n) \o <<" ">> \o Units[u] \o <<"s", " ">> \o Ago

IsRelativePhrase(text) ==
  text # NaN /\ \E n \in RelativeNumbers, u \in 1..Len(Units) : IsPhrase(text, n, u)

PhraseNumber(text) ==
  CHOOSE n \in RelativeNumbers : \E u \in 1..Len(Units) : IsPhrase(text, n, u)

PhraseUnit(text) ==
  CHOOSE u \in 1..Len(Units) : \E n \in RelativeNumbers : IsPhrase(text, n, u)

\* the text reads dddd/dd/dd
IsCanonicalDate(text) ==
  /\ Len(text) = 10
  /\ text[5] = "/" /\ text[8] = "/"
  /\ \A i \in {1, 2, 3, 4, 6, 7, 9, 10} : IsDigit(text[i])

\* the day number of a dddd/dd/dd text
DayNumberOf(text) ==
  ymd2ord(DigitsToInt(SubSeq(text, 1, 4)), DigitsToInt(SubSeq(text, 6, 7)),
          DigitsToInt(SubSeq(text, 9, 10)))

\* minutes from 0001-01-01 00:00 to now, less n times the unit, in whole days
\* (rounded down), counted from 1
DayOfNowMinus(n, u) ==
  IF Units[u] \in {UnitMinute, UnitHour}
  THEN LET back == IF Units[u] = UnitMinute THEN n ELSE 60 * n
           whole == back \div 1440
           rest == back % 1440
       IN now.day - whole - (IF rest > now.minute THEN 1 ELSE 0)
  ELSE now.day - n * (CASE Units[u] = UnitDay -> 1
                        [] Units[u] = UnitWeek -> 7
                        [] Units[u] = UnitMonth -> 30
                        [] Units[u] = UnitYear -> 365)

ThreeDaysAgo == <<"3", " ", "d", "a", "y", "s", " ", "a", "g", "o">>

\* C18: for every "<N> <unit> ago" the normalizer returns now - N*unit as
\* YYYY/MM/DD (month = 30 days, year = 365 days), never later than now;
\* "3 days ago" at 2025-01-10 gives "2025/01/07".
C18_RelativeDate ==
  (DateReturned /\ IsRelativePhrase(date_str)) =>
    /\ IsCanonicalDate(date_out)
    /\ DayNumberOf(date_out) = DayOfNowMinus(PhraseNumber(date_str), PhraseUnit(date_str))
    /\ DayNumberOf(date_out) <= now.day
    /\ (date_str = ThreeDaysAgo /\ now.day = ymd2ord(2025, 1, 10))
         => date_out = <<"2", "0", "2", "5", "/", "0", "1", "/", "0", "7">>

CanonicalFields ==
  {"Title", "URL", "Source", "Sentiment", "Language", "Country", "Source_Type",
   "Published_Date"}

\* the raw columns a platform reads a canonical field from
CandidateColumns(platform, field) ==
  UNION { {s.candidates[i] : i \in 1..Len(s.candidates)} :
            s \in {t \in Range(platform_steps(platform)) : t.field = field} }

NotAvailableCell == Const("N/A")

\* C20: in every normalized table, a canonical field none of whose candidate
\* columns is in the raw table is present in every row with the value "N/A"
C20_AbsentFieldIsNotAvailable ==
  \A k \in 1..Len(all_dataframes) :
    LET frame == all_dataframes[k]
        platform == platform_of(uploaded_files[frame.file].name)
        raw == uploaded_files[frame.table].columns
    IN \A field \in CanonicalFields :
         CandidateColumns(platform, field) \cap raw = {}
           => \A r \in 1..Len(frame.rows) :
                /\ field \in DOMAIN frame.rows[r]
                /\ frame.rows[r][field] = NotAvailableCell


\* the candidate columns of a canonical field, in the order they are tried
CandidateChain(platform, field) ==
  IF platform = "Talkwalker" /\ field = "Title" THEN <<"title", "title_snippet">>
  ELSE IF platform = "Talkwalker" /\ field = "Country"
  THEN << "extra_source_attributes.world_data.country",
          "extra_author_attributes.world_data.country",
          "extra_article_attributes.world_data.country" >>
  ELSE IF platform = "Talkwalker" /\ field = "Published_Date"
  THEN <<"published", "indexed">>
  ELSE LET steps == platform_steps(platform)
           at == {i \in 1..Len(steps) : steps[i].field = field}
       IN IF at = {} THEN <<>> ELSE steps[CHOOSE i \in at : TRUE].candidates

\* the cell a canonical field takes from the raw column c, row r of table t
TakenFrom(field, t, c, r) ==
  IF field = "Published_Date" THEN DateCell(t, c, r) ELSE RawCell(t, c, r)

\* the canonical field of every row of the table comes from candidate i
ResolvedBy(frame, field, chain, i) ==
  \A r \in 1..Len(frame.rows) :
    /\ field \in DOMAIN frame.rows[r]
    /\ frame.rows[r][field] = TakenFrom(field, frame.table, chain[i], r)

FramePlatform(frame) == platform_of(uploaded_files[frame.file].name)
FrameRaw(frame) == uploaded_files[frame.table].columns

\* C21: a canonical field comes from the first candidate column, in the
\* fixed order, that the raw table has; a later candidate is used only when
\* every earlier one is absent
C21_FirstPresentCandidateWins ==
  \A k \in 1..Len(all_dataframes) :
    LET frame == all_dataframes[k]
    IN \A field \in CanonicalFields \cup {"Search_Keyword"} :
         LET chain == CandidateChain(FramePlatform(frame), field)
         IN \A i \in 1..Len(chain) :
              (chain[i] \in FrameRaw(frame) /\ \A j \in 1..(i - 1) : chain[j] \notin FrameRaw(frame))
                => ResolvedBy(frame, field, chain, i)

\* C21 witness: one Talkwalker table with title and title_snippet took Title
\* from title, another without title and without the source country took
\* Title from title_snippet and Country from the author country
C21_Witness ==
  /\ \E k \in 1..Len(all_dataframes) :
       LET frame == all_dataframes[k]
       IN /\ FramePlatform(frame) = "Talkwalker"
          /\ {"title", "title_snippet", "published", "indexed"} \subseteq FrameRaw(frame)
          /\ frame.rows[1]["Title"] = RawCell(frame.table, "title", 1)
          /\ frame.rows[1]["Published_Date"] = DateCell(frame.table, "published", 1)
  /\ \E k \in 1..Len(all_dataframes) :
       LET frame == all_dataframes[k]
       IN /\ FramePlatform(frame) = "Talkwalker"
          /\ "title" \notin FrameRaw(frame)
          /\ "extra_source_attributes.world_data.country" \notin FrameRaw(frame)
          /\ frame.rows[1]["Title"] = RawCell(frame.table, "title_snippet", 1)
          /\ frame.rows[1]["Country"]
               = RawCell(frame.table, "extra_author_attributes.world_data.country", 1)
          /\ frame.rows[1]["Published_Date"] = DateCell(frame.table, "indexed", 1)


\* the normalized tables collected for the file at position f
FramesOf(f) == {k \in 1..Len(all_dataframes) : all_dataframes[k].file = f}

\* the reader was called on the file at position f and gave a table
Loaded(f) == is_read(uploaded_files[f].name) /\ uploaded_files[f].readable

Reported(f) == \E i \in 1..Len(messages) : messages[i] = Message("error", f)

\* C22: a file that cannot be read is left out and reported by name, the
\* files around it are still collected, and every file that adds no rows is
\* reported
C22_FailureIsolatedAndReported ==
  /\ \A f \in 1..file_idx :
       ~Loaded(f) => (FramesOf(f) = {} /\ Reported(f))
  /\ \A f \in 1..file_idx :
       FramesOf(f) = {} => Reported(f)
  /\ aggPc = "done" /\ uploaded_files # <<>> => file_idx = Len(uploaded_files)

RECURSIVE LoadedRows(_)
LoadedRows(n) ==
  IF n = 0 THEN 0
  ELSE LoadedRows(n - 1) + (IF Loaded(n) THEN uploaded_files[n].nrows ELSE 0)

\* C29: a file whose table has n rows yields exactly n rows, also in the
\* combined table
C29_RowCountPreserved ==
  /\ \A f \in 1..file_idx :
       Loaded(f) =>
         \/ uploaded_files[f].nrows = 0 /\ FramesOf(f) = {}
         \/ \E k \in FramesOf(f) :
              /\ FramesOf(f) = {k}
              /\ Len(all_dataframes[k].rows) = uploaded_files[f].nrows
  /\ aggPc = "done" /\ aggregated_data.set =>
       Len(aggregated_data.rows) = LoadedRows(Len(uploaded_files))


\* the rows of the tables of a run, one table after the other
RECURSIVE RowsOfRun(_)
RowsOfRun(frames) ==
  IF frames = <<>> THEN <<>>
  ELSE RowsOfRun(SubSeq(frames, 1, Len(frames) - 1))
       \o [r \in 1..Len(frames[Len(frames)].rows) |-> frames[Len(frames)].rows[r]]

\* the cells a row of the combined table has that are not NaN padding
OwnCells(row, frameRow) == \A c \in DOMAIN frameRow : row[c] = frameRow[c]

\* C23: when an aggregation run over uploaded files has ended, the shared
\* collection holds the rows of that run and nothing else
C23_ReplacedWholesale ==
  (aggPc = "done" /\ uploaded_files # <<>>) =>
    LET expected == RowsOfRun(all_dataframes)
    IN /\ Len(aggregated_data.rows) = Len(expected)
       /\ \A r \in 1..Len(expected) : OwnCells(aggregated_data.rows[r], expected[r])


\* the text is <digits>/<digits>/<four digits>, the first two groups of one
\* or two digits
SlashPositions(text) == {i \in 1..Len(text) : text[i] = "/"}
FirstSlash(text) == CHOOSE i \in SlashPositions(text) : \A j \in SlashPositions(text) : i <= j
LastSlash(text) == CHOOSE i \in SlashPositions(text) : \A j \in SlashPositions(text) : i >= j

IsSlashDate(text) ==
  /\ Cardinality(SlashPositions(text)) = 2
  /\ \A i \in 1..Len(text) : text[i] = "/" \/ IsDigit(text[i])
  /\ FirstSlash(text) \in {2, 3}
  /\ LastSlash(text) - FirstSlash(text) \in {2, 3}
  /\ Len(text) - LastSlash(text) = 4

LeftNumber(text) == DigitsToInt(SubSeq(text, 1, FirstSlash(text) - 1))
MiddleNumber(text) == DigitsToInt(SubSeq(text, FirstSlash(text) + 1, LastSlash(text) - 1))
YearNumber(text) == DigitsToInt(SubSeq(text, LastSlash(text) + 1, Len(text)))

IsCalendarDate(y, m, d) ==
  y >= 1 /\ m \in 1..12 /\ d >= 1 /\ d <= days_in_month(y, m)

CanonicalText(y, m, d) ==
  ZeroPad(y, 4) \o <<"/">> \o ZeroPad(m, 2) \o <<"/">> \o ZeroPad(d, 2)

\* the text the caller passed, without the blanks around it
GivenText == strip(date_str)

\* C25: the first format of the list that reads the text gives the result;
\* a text a/b/yyyy is read month first whenever that is a date, and day
\* first only when it is not
C25_FormatOrder ==
  (DateReturned /\ date_str # NaN /\ date_tier \in {"explicit", "flexible", "original"}) =>
    /\ \A f \in 1..Len(formats_to_try) :
         ( /\ strptime(GivenText, formats_to_try[f]).ok
           /\ \A g \in 1..(f - 1) : ~strptime(GivenText, formats_to_try[g]).ok )
           => date_out = strftime(strptime(GivenText, formats_to_try[f]))
    /\ IsSlashDate(GivenText) =>
         LET a == LeftNumber(GivenText)
             b == MiddleNumber(GivenText)
             y == YearNumber(GivenText)
         IN /\ IsCalendarDate(y, a, b) => date_out = CanonicalText(y, a, b)
            /\ (~IsCalendarDate(y, a, b) /\ IsCalendarDate(y, b, a))
                 => date_out = CanonicalText(y, b, a)

\* C25 witness: 03/04/2025, a date either way round, came back as the
\* fourth of March
C25_Witness ==
  /\ DateReturned
  /\ date_str = <<"0", "3", "/", "0", "4", "/", "2", "0", "2", "5">>
  /\ IsCalendarDate(2025, 3, 4) /\ IsCalendarDate(2025, 4, 3)
  /\ date_out = <<"2", "0", "2", "5", "/", "0", "3", "/", "0", "4">>


\* no row of the shared collection has a score column
NoScoreColumns ==
  \A r \in 1..Len(aggregated_data.rows) :
    DOMAIN aggregated_data.rows[r] \cap {"Keyword_Score", "Semantic_Score", "Relevance_Score"} = {}

\* C24: ranking and selecting over the aggregated data never changes the
\* shared collection: same rows, same order, no score column
C24_SnapshotUntouched ==
  [][aggregated_data' = aggregated_data /\ NoScoreColumns']_vars

\* C24 witness: a search over two aggregated articles was ranked, with the
\* second article first, and a selection was returned
C24_Witness ==
  /\ rankPc = "returned"
  /\ selPc = "returned"
  /\ Len(aggregated_data.rows) = 2
  /\ result_df.scored
  /\ result_df.rows[1].index = 2
  /\ top_results # <<>>
  /\ NoScoreColumns


\* x is y rounded to two decimals
RoundedFrom(x, y) == x % Cent = 0 /\ 2 * (x - y) <= Cent /\ 2 * (y - x) <= Cent

\* C30: the ranked table holds every input article exactly once, each with
\* its own three scores
C30_RankIsAlignedPermutation ==
  Ranked =>
    /\ Len(result_df.rows) = Len(articles_df.rows)
    /\ \A a \in 1..Len(articles_df.rows) :
         Cardinality({i \in 1..Len(result_df.rows) : result_df.rows[i].index = a}) = 1
    /\ \A i \in 1..Len(result_df.rows) :
         LET row == result_df.rows[i]
             article == articles_df.rows[row.index]
             kw == keyword_scores[row.index]
             sem == semantic_scores.values[row.index]
         IN /\ row.Title = article.Title
            /\ row.snippet = article.snippet
            /\ row.Source = article.Source
            /\ row.Keyword_Score = kw
            /\ RoundedFrom(row.Semantic_Score, sem)
            /\ 10 * row.Relevance_Score - (6 * kw + 4 * sem) <= 5 * Cent
            /\ (6 * kw + 4 * sem) - 10 * row.Relevance_Score <= 5 * Cent

\* C30 witness: two articles with different scores came back with the
\* second one first
C30_Witness ==
  /\ Ranked
  /\ ~semantic_scores.failed
  /\ Len(result_df.rows) = 2
  /\ result_df.rows[1].index = 2
  /\ result_df.rows[1].Keyword_Score # result_df.rows[2].Keyword_Score
  /\ result_df.rows[1].Semantic_Score # result_df.rows[2].Semantic_Score
  /\ result_df.rows[1].Relevance_Score > result_df.rows[2].Relevance_Score


\* ----------------------------------------------------------------- C26
\* the page requests issued for keyword k and page p (pages count from 1,
\* the claim's page index is p - 1)
RequestsFor(k, p) == {r \in requests : r.task = <<k, p>>}

\* the keyword task has come to its end, with a result or with an exception
KeywordEnded(k) == kwState[k] \in {"done", "failed"}

\* the time-window code and the sort flag as the query string carries them
TimeWindowPart == <<"q", "d", "r", ":">> \o time_period
SortFlagPart == <<"s", "b", "d", ":", "1">>
ClaimedTbs ==
  IF time_period # <<>> /\ lower(sort_by) = Recency
    THEN TimeWindowPart \o <<",">> \o SortFlagPart
  ELSE IF time_period # <<>> THEN TimeWindowPart
  ELSE IF lower(sort_by) = Recency THEN SortFlagPart
  ELSE <<>>

\* the value of a query-string key, empty when the key is not sent
Param(url, key) == IF key \in DOMAIN url THEN url[key] ELSE <<>>

\* the request carries the keyword, the offset of its page, the joined
\* language codes, the first region only, the time window and the sort flag
RequestAsClaimed(r) ==
  /\ r.task[1] \in KwIds
  /\ r.task[2] \in 1..max_pages
  /\ r.url.q = keywords[r.task[1]]
  /\ r.url.start = (r.task[2] - 1) * 10
  /\ Param(r.url, "lr") = JoinPipe(languages)
  /\ Param(r.url, "gl") = (IF geos = <<>> THEN <<>> ELSE geos[1])
  /\ Param(r.url, "tbs") = ClaimedTbs

\* every request issued is the request of one page of one keyword, and no
\* page has two
C26_RequestsWellFormed ==
  /\ \A r \in requests : RequestAsClaimed(r)
  /\ \A k \in KwIds : \A p \in PageIds(k) : Cardinality(RequestsFor(k, p)) <= 1

\* a keyword task that returned has issued the request of each of its pages
C26_EveryPageRequested ==
  \A k \in KwIds :
    kwState[k] = "done" => \A p \in 1..max_pages : Cardinality(RequestsFor(k, p)) = 1

\* with no page to fetch the keyword ends without a request and without an
\* error, and contributes nothing
C26_ZeroPagesIsQuiet ==
  \A k \in KwIds :
    (max_pages = 0 /\ KeywordEnded(k)) =>
      /\ \A r \in requests : r.task[1] # k
      /\ kwState[k] = "done"
      /\ kw_results[k] = <<>>

\* C26: for each keyword and each page index p in [0, max_pages) exactly one
\* page request is built and submitted, with start = p * 10, lr the language
\* codes joined by '|', gl the first region only, and the time-window code
\* and sort flag passed through; with max_pages = 0 no request is issued for
\* the keyword and it contributes an empty result without error
C26_OneRequestPerPage ==
  /\ C26_RequestsWellFormed
  /\ C26_EveryPageRequested
  /\ C26_ZeroPagesIsQuiet

\* a run with two languages, two regions, a time window and the recency
\* sort has requested both pages of its keyword
C26_SettingsRequested ==
  /\ max_pages = 2
  /\ Len(languages) = 2
  /\ Len(geos) = 2
  /\ time_period # <<>>
  /\ lower(sort_by) = Recency
  /\ KwIds # {}
  /\ \A k \in KwIds : kwState[k] = "done"


\* ----------------------------------------------------------------- C27
\* get_news_data has returned or raised
Terminated == pc \in {"done", "raised"}

\* no thread waits for the lock it holds itself
NoReentry == \A t \in Threads : WaitsForLock(t) => lock # t

\* the lock is held exactly by the thread inside a `with self._lock:` block
HeldInsideOnly == \A t \in Threads : (lock = t) <=> InsideLock(t)

\* C27: every harvest run with a non-empty keyword list terminates (returns
\* or raises) provided every HTTP request returns or times out: no
\* interleaving of keyword tasks, page tasks and title fetches deadlocks,
\* self._lock is never acquired by a thread that already holds it, and the
\* page pools never wait on the keyword pool's workers
C27_TerminatesWithoutReentry == [](NoReentry /\ HeldInsideOnly) /\ <>Terminated

\* a run with more keywords than keyword workers has returned after the
\* lock was taken by keyword tasks, by page tasks and inside title fetches
C27_Witness ==
  /\ pc = "done"
  /\ Len(keywords) > MaxKeywordWorkers
  /\ \A k \in KwIds : KeywordLabel(k) = "done"
  /\ {"L39", "L42", "L135", "L141", "L186", "L194"} \subseteq entered

====
